---- MODULE Spec2Model ----
(***************************************************************************)
(* A model of the MMDB reader of ipinfo (src/src/mmdb.rs): the metadata    *)
(* locator (Mmdb::new), the value decoder (read_type), the trie walker     *)
(* (read_record, query_ip_uint) and the query entry points.                *)
(*                                                                         *)
(* Numbers are the mathematical integers; where the Rust code computes in  *)
(* a fixed width (u8, u16, u128) the model states the width and the two    *)
(* outcomes an overflow has: a panic when the build checks overflow (the   *)
(* debug profile) and a wrap-around when it does not (the release          *)
(* profile).  The variable `checked` fixes the build for a behaviour.      *)
(*                                                                         *)
(* The module also models the DNS resolver (src/src/mmdb/dns.rs), the      *)
(* download worker (src/src/downloader.rs) with its consumers, and the     *)
(* domain query of the GUI (src/src/ipinfo_gui.rs), each under its own     *)
(* specification: DnsSpec, DlSpec, GqSpec.                                 *)
(***************************************************************************)
EXTENDS Integers, Sequences, FiniteSets, TLC

VARIABLES
    file,       \* the bytes behind the reader (never written by the program)
    checked,    \* TRUE: overflow checks on (debug build); FALSE: wrapping (release)
    eofStay,    \* how the reader's cursor is left by a read that hits end of input
    phase,      \* "closed" | "open" | "failed" | "aborted"
    metadata,   \* Mmdb.metadata, MdNone before a successful Mmdb::new
    cursor,     \* position of Mmdb.reader
    openRes,    \* result of Mmdb::new
    last,       \* the last query: its operation, argument and result
    dns,        \* the call of query_dns_for_domain that is running, if any
    dl,         \* the download worker, its channel and its consumer, if any
    gq          \* the domain query of the GUI: resolver thread, channels, modal

vars == <<file, checked, eofStay, phase, metadata, cursor, openRes, last, dns,
          dl, gq>>

----------------------------------------------------------------------------
(* Small arithmetic helpers.                                               *)

Max(a, b) == IF a >= b THEN a ELSE b

Min(a, b) == IF a <= b THEN a ELSE b

RECURSIVE Pow2(_)
Pow2(n) == IF n = 0 THEN 1 ELSE 2 * Pow2(n - 1)

RECURSIVE Zeros(_)
Zeros(n) == IF n = 0 THEN <<>> ELSE <<0>> \o Zeros(n - 1)

\* Big-endian unsigned value of a byte sequence (byteorder's BigEndian reads).
RECURSIVE BE(_)
BE(bs) == IF bs = <<>> THEN 0 ELSE BE(SubSeq(bs, 1, Len(bs) - 1)) * 256 + bs[Len(bs)]

----------------------------------------------------------------------------
(* Byte sources.  A source is [head, gap, tail]: the bytes of head, then   *)
(* gap zero bytes, then the bytes of tail.  Offsets are 0-based as in      *)
(* std::io::Seek.                                                          *)

Src(head, gap, tail) == [head |-> head, gap |-> gap, tail |-> tail]

SrcLen(s) == Len(s.head) + s.gap + Len(s.tail)

ByteAt(s, i) ==
    IF i < Len(s.head) THEN s.head[i + 1]
    ELSE IF i < Len(s.head) + s.gap THEN 0
    ELSE s.tail[i - Len(s.head) - s.gap + 1]

Slice(s, from, n) == [k \in 1..n |-> ByteAt(s, from + k - 1)]

\* The source without its first n bytes (n <= SrcLen(s)).
DropBytes(s, n) ==
    IF n <= Len(s.head)
    THEN Src(SubSeq(s.head, n + 1, Len(s.head)), s.gap, s.tail)
    ELSE IF n <= Len(s.head) + s.gap
    THEN Src(<<>>, s.gap - (n - Len(s.head)), s.tail)
    ELSE Src(<<>>, 0, SubSeq(s.tail, n - Len(s.head) - s.gap + 1, Len(s.tail)))

----------------------------------------------------------------------------
(* Results.  kind is "ok", "err" (an MmdbError returned to the caller),    *)
(* "panic" (the thread panics) or "diverge" (unbounded recursion).         *)

NoVal == [t |-> "none", v |-> 0]

V(t, v) == [t |-> t, v |-> v]

Ok(val, pos) == [kind |-> "ok", val |-> val, err |-> "", pos |-> pos]

Err(e, pos) == [kind |-> "err", val |-> NoVal, err |-> e, pos |-> pos]

Panic(pos) == [kind |-> "panic", val |-> NoVal, err |-> "", pos |-> pos]

Diverge(pos) == [kind |-> "diverge", val |-> NoVal, err |-> "", pos |-> pos]

\* Read::read_exact of n bytes at pos.  On end of input the error is BadIo
\* (through `?`); where the cursor is left is not fixed by the Read contract:
\* a reader either keeps it (eofStay) or leaves it at the end of the input.
read_exact(s, pos, n) ==
    IF pos + n <= SrcLen(s)
    THEN Ok(V("raw", Slice(s, pos, n)), pos + n)
    ELSE Err("BadIo", IF eofStay THEN pos ELSE Max(pos, SrcLen(s)))

\* ByteOrder::read_uint asserts 1 <= nbytes.
uint_of(nbytes, r) ==
    IF r.kind # "ok" THEN r
    ELSE IF nbytes = 0 THEN Panic(r.pos)
    ELSE Ok(V("uint", r.val.v), r.pos)

\* ReadBytesExt::read_uint::<BigEndian>(nbytes) into a buffer of maxBytes
\* bytes (8 for read_uint, 16 for read_uint128): the slice buf[..nbytes]
\* panics for nbytes > maxBytes.  The value is kept as its big-endian bytes.
read_uint(s, pos, nbytes, maxBytes) ==
    IF nbytes > maxBytes THEN Panic(pos) ELSE uint_of(nbytes, read_exact(s, pos, nbytes))

----------------------------------------------------------------------------
(* String::from_utf8_lossy: the code points of a byte string, each maximal *)
(* ill-formed part replaced by one U+FFFD.                                 *)

ReplacementChar == 65533

IsCont(b) == b >= 128 /\ b <= 191

RECURSIVE from_utf8_lossy(_)
from_utf8_lossy(bs) ==
    IF bs = <<>> THEN <<>>
    ELSE
    LET n == Len(bs)
        b0 == bs[1]
        At(i) == IF i <= n THEN bs[i] ELSE 0 - 1
        need == IF b0 < 128 THEN 1
                ELSE IF b0 >= 194 /\ b0 <= 223 THEN 2
                ELSE IF b0 >= 224 /\ b0 <= 239 THEN 3
                ELSE IF b0 >= 240 /\ b0 <= 244 THEN 4
                ELSE 0
        lo2 == IF b0 = 224 THEN 160 ELSE IF b0 = 240 THEN 144 ELSE 128
        hi2 == IF b0 = 237 THEN 159 ELSE IF b0 = 244 THEN 143 ELSE 191
        ok2 == At(2) >= lo2 /\ At(2) <= hi2
        \* number of leading bytes that form a prefix of a well-formed sequence
        good == IF need <= 1 THEN 1
                ELSE IF ~ok2 THEN 1
                ELSE IF need = 2 THEN 2
                ELSE IF ~IsCont(At(3)) THEN 2
                ELSE IF need = 3 THEN 3
                ELSE IF ~IsCont(At(4)) THEN 3
                ELSE 4
        whole == need >= 1 /\ good = need
        cp == IF need = 1 THEN b0
              ELSE IF need = 2 THEN (b0 % 32) * 64 + (bs[2] % 64)
              ELSE IF need = 3 THEN (b0 % 16) * 4096 + (bs[2] % 64) * 64 + (bs[3] % 64)
              ELSE (b0 % 8) * 262144 + (bs[2] % 64) * 4096 + (bs[3] % 64) * 64
                   + (bs[4] % 64)
    IN  <<IF whole THEN cp ELSE ReplacementChar>>
        \o from_utf8_lossy(SubSeq(bs, good + 1, n))

----------------------------------------------------------------------------
(* Metadata.                                                               *)

MdNone == [some |-> FALSE, node_count |-> 0, record_size |-> 0, ip_version |-> 0]

Md(nc, rs, ipv) ==
    [some |-> TRUE, node_count |-> nc, record_size |-> rs, ip_version |-> ipv]

\* Fault injection: the size computed from any record_size, none refused.
bytes_per_node_lax(record_size) == (record_size * 2) \div 8

\* bytes_per_node: 0 stands for Err(InvalidMetadata("unsupported record_size")).
bytes_per_node(record_size) ==
    CASE record_size = 24 -> 6
      [] record_size = 28 -> 7
      [] record_size = 32 -> 8
      [] OTHER -> 0

----------------------------------------------------------------------------
(* read_type: the control byte, the type tag and the size.                 *)
(* A value that several later steps use is handed to the next operator as  *)
(* a parameter, one operator per step of the Rust function.                *)

\* a + b computed in an unsigned type of `bits` bits.
AddOverflows(a, b, bits) == a + b >= Pow2(bits)

AddWrapped(a, b, bits) == (a + b) % Pow2(bits)

\* a + b in `bits` bits as the build computes it: a panic on overflow with
\* overflow checks, the wrapped sum without.
add_u(a, b, bits, pos, t) ==
    IF AddOverflows(a, b, bits) /\ checked THEN Panic(pos)
    ELSE Ok(V(t, AddWrapped(a, b, bits)), pos)

Ctl(typ, size, hint) == V("ctl", [typ |-> typ, size |-> size, hint |-> hint])

\* 7u8 + reader.read_u8()?
tag_of(r) == IF r.kind # "ok" THEN r ELSE add_u(7, r.val.v[1], 8, r.pos, "tag")

\* let typ = match typ { 0 => 7u8 + reader.read_u8()?, _ => typ };
read_tag(s, pos, typ3) ==
    IF typ3 # 0 THEN Ok(V("tag", typ3), pos) ELSE tag_of(read_exact(s, pos, 1))

\* (29 + reader.read_u8()?).into() in u8; (285 + reader.read_u16()?).into() in u16
size_of(base, bits, r) ==
    IF r.kind # "ok" THEN r ELSE add_u(base, BE(r.val.v), bits, r.pos, "size")

\* 65821 + reader.read_u24()? in u32: 65821 + (2^24 - 1) < 2^32, no overflow
size31_of(r) ==
    IF r.kind # "ok" THEN r ELSE Ok(V("size", 65821 + BE(r.val.v)), r.pos)

\* let size: u32 = if typ != 1 { match size_hint { ... } } else { size_hint };
read_size(s, pos, typ, size_hint) ==
    IF typ = 1 \/ size_hint <= 28 THEN Ok(V("size", size_hint), pos)
    ELSE IF size_hint = 29 THEN size_of(29, 8, read_exact(s, pos, 1))
    ELSE IF size_hint = 30 THEN size_of(285, 16, read_exact(s, pos, 2))
    ELSE size31_of(read_exact(s, pos, 3))

ctl_done(typ, hint, rs) ==
    IF rs.kind # "ok" THEN rs ELSE Ok(Ctl(typ, rs.val.v, hint), rs.pos)

ctl_size(s, cb, rt) ==
    IF rt.kind # "ok" THEN rt
    ELSE ctl_done(rt.val.v, cb % 32, read_size(s, rt.pos, rt.val.v, cb % 32))

ctl_tag(s, r0) ==
    IF r0.kind # "ok" THEN r0
    ELSE ctl_size(s, r0.val.v[1], read_tag(s, r0.pos, r0.val.v[1] \div 32))

\* The head of read_type: control byte, effective tag, size.
read_control(s, pos) == ctl_tag(s, read_exact(s, pos, 1))

----------------------------------------------------------------------------
(* read_type: the decoder of one value.                                    *)
(* `active` is the set of offsets whose decoding is in progress on the     *)
(* call stack.  read_type is a function of the source, the offset and the  *)
(* metadata alone, so entering it at an offset that is already active      *)
(* repeats forever: that is the outcome "diverge".                         *)

\* Fault injection: the bias of the two-byte pointer left out.
pointer_value_unbiased(width, valueBits, payload) ==
    CASE width = 0 -> payload + valueBits * 256
      [] width = 1 -> payload + valueBits * 65536
      [] width = 2 -> payload + valueBits * 16777216 + 526336
      [] OTHER -> payload

\* The target value of a pointer (without the data section's offset).
pointer_value(width, valueBits, payload) ==
    CASE width = 0 -> payload + valueBits * 256
      [] width = 1 -> payload + valueBits * 65536 + 2048
      [] width = 2 -> payload + valueBits * 16777216 + 526336
      [] OTHER -> payload

\* Fault injection: an entry already there is kept (entry().or_insert()).
MapInsertFirst(m, key, value) ==
    [k \in (DOMAIN m) \cup {key} |-> IF k \in DOMAIN m THEN m[k] ELSE value]

\* BTreeMap::insert: the later value replaces the earlier one.
MapInsert(m, key, value) ==
    [k \in (DOMAIN m) \cup {key} |-> IF k = key THEN value ELSE m[k]]

EmptyMap == [k \in {} |-> NoVal]

\* The value of big-endian bytes fits an unsigned type of `width` bytes.
FitsIn(bs, width) == \A i \in 1..(Len(bs) - width) : bs[i] = 0

\* try_into() of the u64 read into an unsigned type of `width` bytes.
try_into(r, t, width) ==
    IF r.kind # "ok" THEN r
    ELSE IF ~FitsIn(r.val.v, width) THEN Err("BadConversion", r.pos)
    ELSE Ok(V(t, BE(r.val.v)), r.pos)

\* The integer read, as a value of variant t (no conversion can fail).
as_uint(r, t) == IF r.kind # "ok" THEN r ELSE Ok(V(t, BE(r.val.v)), r.pos)

\* i32::from_be_bytes: two's complement of the four bytes.
i32_of(r) ==
    IF r.kind # "ok" THEN r
    ELSE IF r.val.v[1] >= 128
    THEN Ok(V("S32", BE(SubSeq(r.val.v, 2, 4)) + (r.val.v[1] - 128) * 16777216
                     - 2147483647 - 1),
            r.pos)
    ELSE Ok(V("S32", BE(r.val.v)), r.pos)

\* read_i32::<BigEndian>
read_i32(s, pos) == i32_of(read_exact(s, pos, 4))

\* Raw bytes kept as they are: Bytes, and the bits of a Double or a Float.
Retag(r, t) == IF r.kind # "ok" THEN r ELSE Ok(V(t, r.val.v), r.pos)

\* String::from_utf8_lossy(&buffer).to_string()
str_of(r) ==
    IF r.kind # "ok" THEN r ELSE Ok(V("Utf8String", from_utf8_lossy(r.val.v)), r.pos)

\* Fault injection: every size but 0 taken for true.
read_boolean_nonzero(size, pos) ==
    IF size = 0 THEN Ok(V("Boolean", FALSE), pos) ELSE Ok(V("Boolean", TRUE), pos)

\* tag 14: match size { 0 => false, 1 => true, _ => InvalidData }
read_boolean(size, pos) ==
    IF size = 0 THEN Ok(V("Boolean", FALSE), pos)
    ELSE IF size = 1 THEN Ok(V("Boolean", TRUE), pos)
    ELSE Err("InvalidData", pos)

RECURSIVE read_type(_, _, _, _)
RECURSIVE read_map(_, _, _, _, _, _)
RECURSIVE read_array(_, _, _, _, _, _)

\* Fault injection: the cursor is left where the target's decoding ended.
restore_skipped(saved, typ) == typ

\* reader.seek(SeekFrom::Start(pos))?; typ
restore(saved, typ) ==
    IF typ.kind \in {"panic", "diverge"} THEN typ ELSE [typ EXCEPT !.pos = saved]

\* Fault injection: without metadata the pointer is followed from offset 16.
pointer_follow_unchecked(s, md, active, width, valueBits, rp) ==
    IF rp.kind # "ok" THEN rp
    ELSE IF ~md.some
    THEN restore(rp.pos,
                 read_type(s, pointer_value(width, valueBits, BE(rp.val.v)) + 16,
                           md, active))
    ELSE IF bytes_per_node(md.record_size) = 0 THEN Err("InvalidMetadata", rp.pos)
    ELSE restore(rp.pos,
                 read_type(s,
                           bytes_per_node(md.record_size) * md.node_count
                           + pointer_value(width, valueBits, BE(rp.val.v)) + 16,
                           md, active))

\* The pointer branch once the payload rp was read.
pointer_follow(s, md, active, width, valueBits, rp) ==
    IF rp.kind # "ok" THEN rp
    ELSE IF ~md.some THEN Err("InvalidData", rp.pos)
    ELSE IF bytes_per_node(md.record_size) = 0 THEN Err("InvalidMetadata", rp.pos)
    ELSE restore(rp.pos,
                 read_type(s,
                           bytes_per_node(md.record_size) * md.node_count
                           + pointer_value(width, valueBits, BE(rp.val.v)) + 16,
                           md, active))

\* tag 1: the pointer branch, the same for the four widths.
read_pointer(s, pos, md, active, size) ==
    pointer_follow(s, md, active, size \div 8, size % 8,
                   read_exact(s, pos, (size \div 8) + 1))

\* items.insert(key, value), then the pairs that are left
map_next(s, md, active, n, items, key, value) ==
    IF value.kind # "ok" THEN value
    ELSE read_map(s, value.pos, md, active, n - 1, MapInsert(items, key, value.val))

\* the key must be a string; then its value
map_value(s, md, active, n, items, key) ==
    IF key.kind # "ok" THEN key
    ELSE IF key.val.t # "Utf8String" THEN Err("InvalidData", key.pos)
    ELSE map_next(s, md, active, n, items, key.val.v,
                  read_type(s, key.pos, md, active))

\* tag 7: `n` more key/value pairs into `items`.
read_map(s, pos, md, active, n, items) ==
    IF n = 0 THEN Ok(V("Map", items), pos)
    ELSE map_value(s, md, active, n, items, read_type(s, pos, md, active))

\* Fault injection: a failed element ends the array with what was decoded.
array_next_partial(s, md, active, n, items, e) ==
    IF e.kind # "ok" THEN Ok(V("Array", items), e.pos)
    ELSE read_array(s, e.pos, md, active, n - 1, Append(items, e.val))

\* items.push(read_type(reader, metadata)?), then the elements that are left
array_next(s, md, active, n, items, e) ==
    IF e.kind # "ok" THEN e
    ELSE read_array(s, e.pos, md, active, n - 1, Append(items, e.val))

\* tag 11: `n` more elements onto `items`.
read_array(s, pos, md, active, n, items) ==
    IF n = 0 THEN Ok(V("Array", items), pos)
    ELSE array_next(s, md, active, n, items, read_type(s, pos, md, active))

\* The dispatch on the effective tag; `inner` is active with the offset of
\* this value added.
read_body(s, md, inner, typ, size, pos) ==
    CASE typ = 1 -> read_pointer(s, pos, md, inner, size)
      [] typ = 2 -> str_of(read_exact(s, pos, size))
      [] typ = 3 -> Retag(read_exact(s, pos, 8), "Double")
      [] typ = 4 -> Retag(read_exact(s, pos, size), "Bytes")
      [] typ = 5 -> IF size = 0 THEN Ok(V("U16", 0), pos)
                    ELSE try_into(read_uint(s, pos, size, 8), "U16", 2)
      [] typ = 6 -> IF size = 0 THEN Ok(V("U32", 0), pos)
                    ELSE try_into(read_uint(s, pos, size, 8), "U32", 4)
      [] typ = 9 -> IF size = 0 THEN Ok(V("U64", 0), pos)
                    ELSE as_uint(read_uint(s, pos, size, 8), "U64")
      [] typ = 10 -> IF size = 0 THEN Ok(V("U128", 0), pos)
                     ELSE as_uint(read_uint(s, pos, size, 16), "U128")
      [] typ = 8 -> IF size = 4 THEN read_i32(s, pos)
                    ELSE IF size <= 3 THEN as_uint(read_uint(s, pos, size, 8), "S32")
                    ELSE Err("InvalidData", pos)
      [] typ = 7 -> read_map(s, pos, md, inner, size, EmptyMap)
      [] typ = 11 -> read_array(s, pos, md, inner, size, <<>>)
      [] typ \in {12, 13} -> Err("NotImplemented", pos)
      [] typ = 14 -> read_boolean(size, pos)
      [] typ = 15 -> Retag(read_exact(s, pos, 4), "Float")
      [] OTHER -> Err("InvalidData", pos)

dispatch(s, start, md, active, c) ==
    IF c.kind # "ok" THEN c
    ELSE read_body(s, md, active \cup {start}, c.val.v.typ, c.val.v.size, c.pos)

\* Fault injection: a cycle guard, an offset entered twice is an error.
read_type_guarded(s, pos, md, active) ==
    IF pos \in active THEN Err("InvalidData", pos)
    ELSE dispatch(s, pos, md, active, read_control(s, pos))

read_type(s, pos, md, active) ==
    IF pos \in active THEN Diverge(pos)
    ELSE dispatch(s, pos, md, active, read_control(s, pos))

----------------------------------------------------------------------------
(* The trie walker.                                                        *)

\* Ok(TraverseTreeTo(to)) | Ok(NoData) | Ok(Data(to)) | Err(err) | a panic;
\* sel is the record selected (-1 when the node could not be read).
RecRes(kind, res, to, err, pos, sel) ==
    [kind |-> kind, res |-> res, to |-> to, err |-> err, pos |-> pos, sel |-> sel]

node_done(l, r) ==
    IF r.kind # "ok" THEN r
    ELSE Ok(V("node", <<BE(l.val.v), BE(r.val.v)>>), r.pos)

\* two big-endian integers of n bytes each
node_pair(s, n, l) ==
    IF l.kind # "ok" THEN l ELSE node_done(l, read_exact(s, l.pos, n))

\* Fault injection: the nibbles of the middle byte given to the wrong
\* records.
node_packed_swapped(b) ==
    IF b.kind # "ok" THEN b
    ELSE Ok(V("node",
              << (b.val.v[4] % 16) * 16777216 + BE(SubSeq(b.val.v, 1, 3)),
                 (b.val.v[4] \div 16) * 16777216 + BE(SubSeq(b.val.v, 5, 7)) >>),
            b.pos)

\* the 7-byte node of record_size 28
node_packed(b) ==
    IF b.kind # "ok" THEN b
    ELSE Ok(V("node",
              << (b.val.v[4] \div 16) * 16777216 + BE(SubSeq(b.val.v, 1, 3)),
                 (b.val.v[4] % 16) * 16777216 + BE(SubSeq(b.val.v, 5, 7)) >>),
            b.pos)

\* The two records of the node at pos, or the failed read.
read_node(s, pos, bpn) ==
    CASE bpn = 6 -> node_pair(s, 3, read_exact(s, pos, 3))
      [] bpn = 7 -> node_packed(read_exact(s, pos, 7))
      [] OTHER -> node_pair(s, 4, read_exact(s, pos, 4))

\* Fault injection: the record taken for a byte offset, not a node number.
classify_unscaled(selected_record, node_count, bpn, pos) ==
    IF selected_record < node_count
    THEN RecRes("ok", "TraverseTreeTo", selected_record, "", pos, selected_record)
    ELSE IF selected_record = node_count
    THEN RecRes("ok", "NoData", 0, "", pos, selected_record)
    ELSE IF selected_record - node_count - 16 < 0 /\ checked
    THEN RecRes("panic", "", 0, "", pos, selected_record)
    ELSE RecRes("ok", "Data",
                (selected_record - node_count - 16) + bpn * node_count + 16,
                "", pos, selected_record)

\* Fault injection: the comparison with node_count off by one, so that
\* node_count itself is taken for a node.
classify_le(selected_record, node_count, bpn, pos) ==
    IF selected_record <= node_count
    THEN RecRes("ok", "TraverseTreeTo", selected_record * bpn, "", pos, selected_record)
    ELSE IF selected_record - node_count - 16 < 0 /\ checked
    THEN RecRes("panic", "", 0, "", pos, selected_record)
    ELSE RecRes("ok", "Data",
                (selected_record - node_count - 16) + bpn * node_count + 16,
                "", pos, selected_record)

\* The classification of the selected record against node_count.  The data
\* branch computes in u128: selected - node_count - 16 underflows when
\* selected - node_count < 16.  With overflow checks that is a panic; without,
\* the difference wraps to 2^128 + d and the two additions that follow wrap
\* back, so the offset is d + search_tree_size + 16 with d the negative
\* difference.
classify(selected_record, node_count, bpn, pos) ==
    IF selected_record < node_count
    THEN RecRes("ok", "TraverseTreeTo", selected_record * bpn, "", pos, selected_record)
    ELSE IF selected_record = node_count
    THEN RecRes("ok", "NoData", 0, "", pos, selected_record)
    ELSE IF selected_record - node_count - 16 < 0 /\ checked
    THEN RecRes("panic", "", 0, "", pos, selected_record)
    ELSE RecRes("ok", "Data",
                (selected_record - node_count - 16) + bpn * node_count + 16,
                "", pos, selected_record)

\* Fault injection: the two records of a node swapped.
record_of_swapped(md, bit_set, bpn, n) ==
    IF n.kind # "ok" THEN RecRes("err", "", 0, n.err, n.pos, 0 - 1)
    ELSE classify(IF bit_set THEN n.val.v[1] ELSE n.val.v[2], md.node_count, bpn, n.pos)

\* let selected_record = match bit_set { .. }; then the classification
record_of(md, bit_set, bpn, n) ==
    IF n.kind # "ok" THEN RecRes("err", "", 0, n.err, n.pos, 0 - 1)
    ELSE classify(IF bit_set THEN n.val.v[2] ELSE n.val.v[1], md.node_count, bpn, n.pos)

read_record(s, pos, md, bit_set) ==
    IF bytes_per_node(md.record_size) = 0
    THEN RecRes("err", "", 0, "InvalidMetadata", pos, 0 - 1)
    ELSE record_of(md, bit_set, bytes_per_node(md.record_size),
                   read_node(s, pos, bytes_per_node(md.record_size)))

\* A u128 is kept as its 16 big-endian bytes; (ip >> i) & 1:
Bit(ip, i) == (ip[16 - (i \div 8)] \div Pow2(i % 8)) % 2

\* The result of a query: Ok(Some(val)) | Ok(None) | Err(err) | a panic | a
\* divergence; with the offsets of the nodes read (reads), the records selected
\* in the nodes that were read (sels) and the offset of the value decoded
\* (dataPos, -1 when none was).
QRes(kind, some, val, err, pos, reads, sels, dataPos) ==
    [kind |-> kind, some |-> some, val |-> val, err |-> err, pos |-> pos,
     reads |-> reads, sels |-> sels, dataPos |-> dataPos]

\* The state of the loop of query_ip_uint: still walking with the cursor at
\* res.pos (done = FALSE), or returned with res (done = TRUE).
Walking(pos, reads, sels) ==
    [done |-> FALSE, res |-> QRes("ok", FALSE, NoVal, "", pos, reads, sels, 0 - 1)]

Returned(res) == [done |-> TRUE, res |-> res]

\* let typ = read_type(..)?; return Ok(Some(typ));
data_result(reads, sels, to, typ) ==
    Returned(QRes(typ.kind, typ.kind = "ok", typ.val, typ.err, typ.pos, reads, sels, to))

\* match read_record(..)? { TraverseTreeTo | Data | NoData }
after_record(s, md, reads, sels, rec) ==
    IF rec.kind # "ok"
    THEN Returned(QRes(rec.kind, FALSE, NoVal, rec.err, rec.pos, reads, sels, 0 - 1))
    ELSE IF rec.res = "TraverseTreeTo" THEN Walking(rec.to, reads, sels)
    ELSE IF rec.res = "NoData"
    THEN Returned(QRes("ok", FALSE, NoVal, "", rec.pos, reads, sels, 0 - 1))
    ELSE data_result(reads, sels, rec.to, read_type(s, rec.to, md, {}))

\* the traces, then the match
trace_record(s, md, pos, prev, rec) ==
    after_record(s, md,
                 IF rec.err = "InvalidMetadata" THEN prev.reads
                 ELSE Append(prev.reads, pos),
                 IF rec.sel < 0 THEN prev.sels ELSE Append(prev.sels, rec.sel),
                 rec)

\* One iteration of the loop, for bit i of ip.
walk_step(s, md, ip, i, st) ==
    IF st.done THEN st
    ELSE trace_record(s, md, st.res.pos, st.res,
                      read_record(s, st.res.pos, md, Bit(ip, i) = 1))

\* Fault injection: the bits taken from the least significant up.
RECURSIVE walk_ascending(_, _, _, _, _, _)
walk_ascending(s, md, ip, hi, lo, st) ==
    IF st.done THEN st
    ELSE IF hi = lo THEN walk_step(s, md, ip, hi, st)
    ELSE walk_ascending(s, md, ip, hi, (hi + lo + 1) \div 2,
                        walk_ascending(s, md, ip, ((hi + lo + 1) \div 2) - 1, lo, st))

\* The iterations for bits hi, hi-1, .., lo in this order (hi >= lo).  The
\* range is halved instead of peeled one bit at a time only to keep the
\* evaluation shallow; the iterations and their order are those of the loop.
RECURSIVE walk(_, _, _, _, _, _)
walk(s, md, ip, hi, lo, st) ==
    IF st.done THEN st
    ELSE IF hi = lo THEN walk_step(s, md, ip, hi, st)
    ELSE walk(s, md, ip, ((hi + lo + 1) \div 2) - 1, lo,
              walk(s, md, ip, hi, (hi + lo + 1) \div 2, st))

\* Fault injection: the walk starts where the cursor was left.
query_ip_uint_unseeked(s, md, ip, num_bits) ==
    walk(s, md, ip, num_bits - 1, 0, Walking(cursor, <<>>, <<>>)).res

\* self.reader.seek(SeekFrom::Start(0)); for i in (0..num_bits).rev() ..; Ok(None)
query_ip_uint(s, md, ip, num_bits) ==
    walk(s, md, ip, num_bits - 1, 0, Walking(0, <<>>, <<>>)).res

----------------------------------------------------------------------------
(* Addresses.  An Ipv4Addr is its 4 octets, an Ipv6Addr its 8 segments.    *)

\* Ipv4Addr::to_bits() as u128
v4_to_bits(ip) == Zeros(12) \o ip

\* Ipv6Addr::to_bits()
v6_to_bits(ip) ==
    [k \in 1..16 |-> IF k % 2 = 1 THEN ip[(k + 1) \div 2] \div 256
                     ELSE ip[k \div 2] % 256]

\* Fault injection: to_ipv6_mapped, ::ffff:a.b.c.d
to_ipv6_mapped(ip) == <<0, 0, 0, 0, 0, 65535, ip[1] * 256 + ip[2], ip[3] * 256 + ip[4]>>

\* Ipv4Addr::to_ipv6_compatible(): ::a.b.c.d
to_ipv6_compatible(ip) == <<0, 0, 0, 0, 0, 0, ip[1] * 256 + ip[2], ip[3] * 256 + ip[4]>>

QErr(e, pos) == QRes("err", FALSE, NoVal, e, pos, <<>>, <<>>, 0 - 1)

\* Fault injection: an IPv6 address narrowed to its low 32 bits on an IPv4
\* database.
query_ipv6_narrowing(s, md, pos, ip) ==
    CASE md.ip_version = 4 -> query_ip_uint(s, md, v6_to_bits(ip), 32)
      [] md.ip_version = 6 -> query_ip_uint(s, md, v6_to_bits(ip), 128)
      [] OTHER -> QErr("InvalidMetadata", pos)

query_ipv6(s, md, pos, ip) ==
    CASE md.ip_version = 4 -> QErr("WrongDatabaseType", pos)
      [] md.ip_version = 6 -> query_ip_uint(s, md, v6_to_bits(ip), 128)
      [] OTHER -> QErr("InvalidMetadata", pos)

query_ipv4(s, md, pos, ip) ==
    CASE md.ip_version = 4 -> query_ip_uint(s, md, v4_to_bits(ip), 32)
      [] md.ip_version = 6 -> query_ipv6(s, md, pos, to_ipv6_compatible(ip))
      [] OTHER -> QErr("InvalidMetadata", pos)

\* query_ip: ip is [v |-> 4 or 6, a |-> the address]
query_ip(s, md, pos, ip) ==
    IF ip.v = 4 THEN query_ipv4(s, md, pos, ip.a) ELSE query_ipv6(s, md, pos, ip.a)

----------------------------------------------------------------------------
(* Mmdb::new: the metadata locator.                                        *)

TailWindow == 128000

METADATA_MARKER == <<171, 205, 239, 77, 97, 120, 77, 105, 110, 100, 46, 99, 111, 109>>

KeyNodeCount == <<110, 111, 100, 101, 95, 99, 111, 117, 110, 116>>

KeyRecordSize == <<114, 101, 99, 111, 114, 100, 95, 115, 105, 122, 101>>

KeyIpVersion == <<105, 112, 95, 118, 101, 114, 115, 105, 111, 110>>

\* |x| x == METADATA_MARKER for the window of `contents` that starts at p
marker_at(contents, p) ==
    \A k \in 1..Len(METADATA_MARKER) : ByteAt(contents, p + k - 1) = METADATA_MARKER[k]

\* Fault injection: position instead of rposition, the first occurrence.
first_of(hits) ==
    IF hits = {} THEN 0 - 1 ELSE CHOOSE p \in hits : \A q \in hits : p <= q

\* The greatest element of a set of offsets, -1 (None) when it is empty.
last_of(hits) ==
    IF hits = {} THEN 0 - 1 ELSE CHOOSE p \in hits : \A q \in hits : q <= p

\* contents.windows(len).rposition(..): the greatest start of a window that
\* holds the marker.
rposition(contents) ==
    last_of({p \in 0..(SrcLen(contents) - Len(METADATA_MARKER)) : marker_at(contents, p)})

\* map.get(key) is Some(variant t)
has_field(map, key, t) == key \in DOMAIN map /\ map[key].t = t

\* Ok(Mmdb) | Err(err) | a panic; `at` is the offset in the file of the
\* metadata value decoded (-1 when no marker was found).
OpenRes(kind, err, md, at) == [kind |-> kind, err |-> err, md |-> md, at |-> at]

\* Fault injection: the variant of record_size is not looked at.
MmdbMetadata_new_lax(typ, at) ==
    IF typ.t # "Map" THEN OpenRes("err", "InvalidMetadata", MdNone, at)
    ELSE IF ~has_field(typ.v, KeyNodeCount, "U32")
    THEN OpenRes("err", "InvalidMetadata", MdNone, at)
    ELSE IF KeyRecordSize \notin DOMAIN typ.v
    THEN OpenRes("err", "InvalidMetadata", MdNone, at)
    ELSE IF ~has_field(typ.v, KeyIpVersion, "U16")
    THEN OpenRes("err", "InvalidMetadata", MdNone, at)
    ELSE OpenRes("ok", "",
                 Md(typ.v[KeyNodeCount].v, typ.v[KeyRecordSize].v, typ.v[KeyIpVersion].v),
                 at)

\* MmdbMetadata::new
MmdbMetadata_new(typ, at) ==
    IF typ.t # "Map" THEN OpenRes("err", "InvalidMetadata", MdNone, at)
    ELSE IF ~has_field(typ.v, KeyNodeCount, "U32")
    THEN OpenRes("err", "InvalidMetadata", MdNone, at)
    ELSE IF ~has_field(typ.v, KeyRecordSize, "U16")
    THEN OpenRes("err", "InvalidMetadata", MdNone, at)
    ELSE IF ~has_field(typ.v, KeyIpVersion, "U16")
    THEN OpenRes("err", "InvalidMetadata", MdNone, at)
    ELSE OpenRes("ok", "",
                 Md(typ.v[KeyNodeCount].v, typ.v[KeyRecordSize].v, typ.v[KeyIpVersion].v),
                 at)

\* let typ = read_type(&mut contents, None)?; MmdbMetadata::new(&typ)?
meta_of(at, typ) ==
    IF typ.kind # "ok" THEN OpenRes(typ.kind, typ.err, MdNone, at)
    ELSE MmdbMetadata_new(typ.val, at)

\* the marker found (or not) at `found` in the window that starts at start_byte
locate(start_byte, contents, found) ==
    IF found < 0 THEN OpenRes("err", "MetadataNotFound", MdNone, 0 - 1)
    ELSE meta_of(start_byte + found + Len(METADATA_MARKER),
                 read_type(contents, found + Len(METADATA_MARKER), MdNone, {}))

scan(start_byte, contents) == locate(start_byte, contents, rposition(contents))

start_of(file_size) == IF file_size < TailWindow THEN 0 ELSE file_size - TailWindow

\* Mmdb::new(reader)
Mmdb_new(reader) ==
    scan(start_of(SrcLen(reader)), DropBytes(reader, start_of(SrcLen(reader))))

----------------------------------------------------------------------------
(* The inputs: database files and addresses.                               *)
(* The files hold no integer of 2^31 or more.                              *)

MaxNodes == 2

MaxDataOff == 1

MaxGenLen == 2

U24(n) == <<n \div 65536, (n \div 256) % 256, n % 256>>

U32(n) == <<n \div 16777216, (n \div 65536) % 256, (n \div 256) % 256, n % 256>>

\* One node of the search tree with records l and r.
EncNode(rs, l, r) ==
    CASE rs = 28 -> U24(l % 16777216)
                    \o <<(l \div 16777216) * 16 + (r \div 16777216)>>
                    \o U24(r % 16777216)
      [] rs = 32 -> U32(l) \o U32(r)
      [] OTHER -> U24(l) \o U24(r)

RECURSIVE EncNodes(_, _)
EncNodes(rs, nodes) ==
    IF nodes = <<>> THEN <<>>
    ELSE EncNode(rs, nodes[1][1], nodes[1][2]) \o EncNodes(rs, Tail(nodes))

\* A string of at most 28 bytes: tag 2.
EncStr(bs) == <<64 + Len(bs)>> \o bs

\* One-byte unsigned integers: tag 5 (u16) and tag 6 (u32).
EncU16(n) == <<161, n>>

EncU32(n) == <<193, n>>

StrHit == <<104, 105, 116>>

StrA == <<97>>

StrB == <<98>>

MetaMap(nc, rs, ipv) ==
    <<227>> \o EncStr(KeyNodeCount) \o EncU32(nc)
            \o EncStr(KeyRecordSize) \o EncU16(rs)
            \o EncStr(KeyIpVersion) \o EncU16(ipv)

Meta(nc, rs, ipv) == METADATA_MARKER \o MetaMap(nc, rs, ipv)

\* search tree, 16-byte separator, data section, then `tail`
Body(rs, nodes, data) == EncNodes(rs, nodes) \o Zeros(16) \o data

Db(rs, ipv, nodes, data) ==
    Src(Body(rs, nodes, data) \o Meta(Len(nodes), rs, ipv), 0, <<>>)

\* Nodes 0 .. nc-2 lead to the next node on either bit; the last holds l and r.
Chain(nc, l, r) == [k \in 1..nc |-> IF k < nc THEN <<k, k>> ELSE <<l, r>>]

\* Records from node_count on: no data, the first and the last of the 15
\* values whose data offset would be negative, data offsets 0..MaxDataOff, and
\* one past the end of file.
Records(nc) ==
    {nc, nc + 1, nc + 15, nc + 200} \cup {nc + 16 + k : k \in 0..MaxDataOff}

SampleData == EncStr(StrHit) \o EncU16(7)

\* Trees without a cycle: every walk ends in the last node of the chain.
ChainFiles ==
    UNION {{Db(rs, ipv, Chain(nc, nc, r), SampleData) :
                rs \in {24, 28, 32}, ipv \in {4, 6}, r \in Records(nc)} :
           nc \in 1..MaxNodes}

\* One node that leads back to itself on bit 0, on bit 1, on both.
LoopFiles ==
    {Db(rs, ipv, <<lr>>, SampleData) :
        rs \in {24, 28, 32}, ipv \in {4, 6}, lr \in {<<0, 17>>, <<1, 0>>, <<0, 0>>}}

\* A tree shorter than node_count says: the record 50 of node 0 leads to a
\* node past the end of the file.
ShortTreeFiles ==
    {Src(Body(24, <<<<50, 50>>>>, EncStr(StrHit)) \o Meta(100, 24, ipv), 0, <<>>) :
        ipv \in {4, 6}}

\* One node whose two records differ in every byte: 0x010203 / 0x040506,
\* 0xA123456 / 0x5ABCDEF, 0x01020304 / 0x05060708.
WideRecordFiles ==
    { Db(24, 4, <<<<66051, 263430>>>>, SampleData),
      Db(28, 4, <<<<168965206, 95145455>>>>, SampleData),
      Db(28, 6, <<<<168965206, 95145455>>>>, SampleData),
      Db(32, 4, <<<<16909060, 84281096>>>>, SampleData) }

TreeFiles == ChainFiles \cup LoopFiles \cup ShortTreeFiles \cup WideRecordFiles

\* node_count = 1, record_size = 24, left record 1, right record 17, data at 22
OneNode(data) == Db(24, 4, <<<<1, 17>>>>, data)

HitDb == OneNode(EncStr(StrHit))


\* Data sections written by hand, one per case of the decoder.  A pointer of
\* width 0 is <<32 + valueBits, byte>>; tags above 7 are <<size, tag - 7>>.
PointerData ==
    { <<32, 2>> \o EncStr(StrHit),                 \* pointer to a string
      <<32, 0>>,                                   \* pointer to itself
      <<32, 2, 32, 0>>,                            \* two pointers in a cycle
      <<32, 200>>,                                 \* target past the end of file
      <<32, 2, 163, 1, 0, 0>>,                     \* target fails BadConversion
      <<40, 0, 0>>,                                \* width 1, target past the end
      <<48, 0, 0, 0>>,                             \* width 2, target past the end
      <<56, 0, 0, 0, 5>> \o EncStr(StrHit),        \* width 3
      <<33, 0>>,                                   \* valueBits 1: offset 256
      <<32, 2, 32, 4>> \o EncStr(StrHit) }         \* pointer to pointer

ContainerData ==
    { \* {"a": pointer to "hit", "b": 5}, then "hit"
      <<226>> \o EncStr(StrA) \o <<32, 9>> \o EncStr(StrB) \o EncU16(5)
              \o EncStr(StrHit),
      \* {"a": pointer past the end, "b": 5}
      <<226>> \o EncStr(StrA) \o <<32, 200>> \o EncStr(StrB) \o EncU16(5),
      \* [pointer to "hit", 9], then "hit"
      <<2, 4, 32, 6>> \o EncU16(9) \o EncStr(StrHit),
      \* [pointer to 9, pointer to 9, 9]
      <<3, 4, 32, 6, 32, 6>> \o EncU16(9),
      \* [pointer to its own array]
      <<1, 4, 32, 0>>,
      \* [pointer past the end, 9]
      <<2, 4, 40, 0, 0>> \o EncU16(9),
      \* {"a": 1, "a": 2}
      <<226>> \o EncStr(StrA) \o EncU16(1) \o EncStr(StrA) \o EncU16(2),
      \* a map whose key is not a string
      <<225>> \o EncU16(1) \o EncU16(2),
      \* {"a": [1, {}]}
      <<225>> \o EncStr(StrA) \o <<2, 4>> \o EncU16(1) \o <<224>>,
      \* [9, pointer past the end]
      <<2, 4>> \o EncU16(9) \o <<32, 200>>,
      \* {"a": 1, "b": pointer past the end}
      <<226>> \o EncStr(StrA) \o EncU16(1) \o EncStr(StrB) \o <<32, 200>>,
      \* {"a": 1, pointer past the end: ..}
      <<226>> \o EncStr(StrA) \o EncU16(1) \o <<32, 200>>,
      <<224>>, <<0, 4>> }

ScalarData ==
    { EncStr(StrHit), <<64>>, <<66, 255, 104>>, <<66, 195, 169>>, <<67, 226, 130, 104>>,
      <<104, 64, 9, 33, 251, 84, 68, 45, 24>>,     \* a double
      <<4, 8, 63, 128, 0, 0>>,                     \* a float
      <<131, 1, 2, 3>>, <<128>>,                   \* bytes
      <<160>>, <<161, 7>>, <<162, 1, 2>>, <<163, 0, 1, 2>>, <<163, 1, 0, 0>>,
      <<169, 0, 0, 0, 0, 0, 0, 0, 0, 1>>,          \* u16 of 9 bytes
      <<192>>, <<196, 0, 1, 2, 3>>, <<197, 1, 0, 0, 0, 0>>,
      <<0, 2>>, <<8, 2, 0, 0, 0, 0, 0, 0, 1, 2>>,  \* u64
      <<0, 3>>, <<16, 3>> \o Zeros(15) \o <<5>>, <<17, 3>> \o Zeros(17),
      <<4, 1, 255, 255, 255, 254>>, <<4, 1, 0, 0, 1, 0>>, <<0, 1>>, <<1, 1, 9>>,
      <<3, 1, 1, 2, 3>>, <<5, 1, 0, 0, 0, 0, 0>>,  \* s32
      <<0, 7>>, <<1, 7>>, <<2, 7>>,                \* booleans
      <<28, 7>>, <<29, 7, 0>>, <<30, 7, 0, 0>>, <<31, 7, 0, 0, 0>>,
      <<29, 7, 227>>, <<29, 7, 228>>,              \* 29 + b beyond 255
      <<29, 5, 0>>, <<29, 5, 227>>, <<30, 6, 0, 0>>, <<31, 6, 0, 0, 0>>,
      <<0, 5>>, <<0, 6>>, <<0, 9>>, <<0, 248>>, <<0, 249>>, <<0, 250, 2>>, <<0, 255>> }

\* Every byte string of at most MaxGenLen bytes over a few control bytes.
GenBytes == {0, 32, 65, 225}

GenData == UNION {[1..n -> GenBytes] : n \in 1..MaxGenLen}

DataFiles == {OneNode(d) : d \in PointerData \cup ContainerData \cup ScalarData \cup GenData}

\* Sizes: a bytes value (tag 4) with size hint 29, 30 or 31, then `gap` zero
\* bytes, then the metadata.
Sized(ctl, gap) ==
    Src(Body(24, <<<<1, 17>>>>, ctl), gap, Meta(1, 24, 4))

SizeFiles ==
    { Sized(<<157, 0>>, 40), Sized(<<157, 226>>, 300), Sized(<<157, 227>>, 300),
      Sized(<<157, 255>>, 300), Sized(<<157, 5>>, 10),
      Sized(<<158, 0, 0>>, 300), Sized(<<158, 254, 226>>, 300),
      Sized(<<158, 254, 227>>, 300), Sized(<<158, 255, 255>>, 300),
      Sized(<<159, 0, 0, 0>>, 300), Sized(<<159, 255, 255, 255>>, 300),
      Sized(<<93, 1>>, 40), Sized(<<253, 227>>, 40) }

\* Metadata: what follows the marker, and where the markers are.
FieldNc == EncStr(KeyNodeCount) \o EncU32(1)

FieldRs == EncStr(KeyRecordSize) \o EncU16(24)

FieldIp == EncStr(KeyIpVersion) \o EncU16(4)

Tree1 == Body(24, <<<<1, 17>>>>, EncStr(StrHit))

MetaValues ==
    { <<>>, EncStr(StrHit), EncU16(5), <<2, 4>> \o FieldNc \o FieldRs, <<224>>,
      <<226>> \o FieldNc \o FieldRs,
      <<226>> \o FieldNc \o FieldIp,
      <<226>> \o FieldRs \o FieldIp,
      <<227>> \o EncStr(KeyNodeCount) \o EncU16(1) \o FieldRs \o FieldIp,
      <<227>> \o FieldNc \o EncStr(KeyRecordSize) \o EncU32(24) \o FieldIp,
      <<227>> \o FieldNc \o FieldRs \o EncStr(KeyIpVersion) \o EncStr(<<52>>),
      <<227>> \o FieldNc \o FieldRs \o EncStr(KeyIpVersion) \o <<32, 0>>,
      <<228>> \o FieldNc \o FieldRs \o FieldIp \o EncStr(KeyNodeCount) \o EncU16(1),
      <<228>> \o EncStr(KeyNodeCount) \o EncU16(1) \o FieldRs \o FieldIp \o FieldNc,
      <<228>> \o FieldIp \o EncStr(StrA) \o EncStr(StrHit) \o FieldRs \o FieldNc,
      <<228>> \o FieldNc \o FieldRs \o FieldIp,
      <<227>> \o FieldNc \o FieldRs \o EncStr(KeyIpVersion) \o <<253, 227>>,
      \* tags 12 and 13, the size bytes there or cut short
      <<0, 5>>, <<29, 5>>, <<30, 6, 0>>, <<29, 6, 1>>,
      \* pointers: the value itself, the first entry, a pointer cut short
      <<32, 0>>, <<56, 0, 0, 0, 0>>,
      <<227>> \o EncStr(KeyIpVersion) \o <<32, 0>> \o FieldNc \o FieldRs,
      <<227>> \o EncStr(KeyIpVersion) \o <<40, 0, 0>> \o FieldNc \o FieldRs,
      <<227>> \o FieldNc \o FieldRs \o EncStr(KeyIpVersion) \o <<40, 0>> }

MetaFiles ==
    {Src(Tree1 \o METADATA_MARKER \o m, 0, <<>>) : m \in MetaValues}
    \cup {Src(bs, 0, <<>>) :
            bs \in { <<>>, <<171, 205>>, SubSeq(METADATA_MARKER, 1, 13), Zeros(20),
                     Tree1 \o SubSeq(METADATA_MARKER, 1, 13) \o MetaMap(1, 24, 4),
                     Tree1 \o SubSeq(METADATA_MARKER, 2, 14) \o MetaMap(1, 24, 4),
                     \* two markers
                     Tree1 \o Meta(1, 24, 4) \o Meta(1, 24, 6),
                     Tree1 \o Meta(1, 24, 6) \o Meta(1, 28, 4),
                     Tree1 \o Meta(1, 24, 4) \o METADATA_MARKER \o EncU16(5),
                     Tree1 \o METADATA_MARKER \o EncU16(5) \o Meta(1, 24, 4),
                     Tree1 \o METADATA_MARKER \o Meta(1, 24, 4),
                     Tree1 \o Meta(1, 24, 4) \o METADATA_MARKER,
                     \* a marker inside a string of the data section
                     Body(24, <<<<1, 17>>>>, EncStr(METADATA_MARKER)) \o Meta(1, 24, 4) }}
    \* record_size and ip_version the reader does not support
    \cup {Db(rs, ipv, <<<<1, 17>>>>, EncStr(StrHit)) :
            rs \in {16, 24, 255}, ipv \in {0, 4, 5, 6}}
    \* files longer than the scanned window
    \cup { Src(Tree1 \o Meta(1, 24, 4), TailWindow, <<>>),
           Src(Tree1 \o Meta(1, 24, 4), TailWindow - 30, <<>>),
           Src(Tree1 \o Meta(1, 24, 4), TailWindow - 34, <<>>),
           Src(Tree1 \o Meta(1, 24, 4), TailWindow, Meta(1, 24, 6)),
           Src(Tree1 \o Meta(1, 24, 4), TailWindow, METADATA_MARKER \o EncU16(5)) }

\* A pointer at data offset 0 and its target `gap` zero bytes further on.
PtrFile(ptr, gap, target) ==
    Src(Body(24, <<<<1, 17>>>>, ptr), gap, target \o Meta(1, 24, 4))

\* Pointers of every width whose target lies in the file, and pointers with
\* the greatest payload of each width.
WidePointerFiles ==
    { PtrFile(<<33, 0>>, 254, EncStr(StrHit)),               \* width 0: 256
      PtrFile(<<39, 255>>, 0, <<>>),                         \* width 0: 2047
      PtrFile(<<40, 0, 0>>, 2045, EncStr(StrHit)),           \* width 1: 2048
      PtrFile(<<41, 0, 1>>, 67582, EncStr(StrA)),            \* width 1: 67585
      PtrFile(<<47, 255, 255>>, 0, <<>>),                    \* width 1: greatest
      PtrFile(<<48, 0, 0, 0>>, 526332, EncStr(StrHit)),      \* width 2: 526336
      PtrFile(<<49, 0, 0, 5>>, 17303553, EncStr(StrB)),      \* width 2: 17303557
      PtrFile(<<55, 255, 255, 255>>, 0, <<>>),               \* width 2: greatest
      PtrFile(<<59, 0, 0, 1, 0>>, 251, EncStr(StrHit)),      \* width 3: 256
      PtrFile(<<63, 127, 255, 255, 0>>, 0, <<>>) }           \* width 3: 2^31 - 256

Files == TreeFiles \cup DataFiles \cup SizeFiles \cup MetaFiles \cup WidePointerFiles

V4Addrs == { <<0, 0, 0, 0>>, <<127, 255, 255, 255>>, <<128, 0, 0, 0>>, <<255, 255, 255, 254>> }

\* ::, ::128.0.0.0, 8000::, ::ffff:0.0.0.0
V6Addrs ==
    { <<0, 0, 0, 0, 0, 0, 0, 0>>, <<0, 0, 0, 0, 0, 0, 32768, 0>>,
      <<32768, 0, 0, 0, 0, 0, 0, 0>>, <<0, 0, 0, 0, 0, 65535, 0, 0>> }

IpAddrs ==
    { [v |-> 4, a |-> <<128, 0, 0, 0>>], [v |-> 4, a |-> <<64, 0, 0, 1>>],
      [v |-> 6, a |-> <<32768, 0, 0, 0, 0, 0, 0, 1>>] }

----------------------------------------------------------------------------
(* The DNS resolver (src/src/mmdb/dns.rs): query_dns_for_domain.           *)
(* A domain is the bytes of the &str; an IPv4 address its 4 octets.  The   *)
(* writes into the Vec<u8> packet cannot fail, so WriteFailed has no case. *)

\* let mut resp = [0; 512]
RespBuf == 512

\* '.'
Dot == 46

\* ID 0x1234, flags 0x0100 (recursion desired), QDCOUNT 1, the other counts 0
DnsHeader == <<18, 52, 1, 0, 0, 1, 0, 0, 0, 0, 0, 0>>

\* Ok(addr) | Err(err): code is the u8 of DnsErrorCode, name the String of
\* NoRecordFound.
DnsRes(kind, err, code, ip, name) ==
    [kind |-> kind, err |-> err, code |-> code, ip |-> ip, name |-> name]

DnsErr(e) == DnsRes("err", e, 0, <<>>, <<>>)

DnsNoRes == DnsRes("none", "", 0, <<>>, <<>>)

\* The offsets at which a part of the domain starts: the first byte and the
\* byte after every dot.
part_starts(bs) == {1} \cup {i + 1 : i \in {k \in 1..Len(bs) : bs[k] = Dot}}

\* The end of the part that starts at st: the byte before the next dot.
part_end(bs, st) ==
    IF \E k \in st..Len(bs) : bs[k] = Dot
    THEN (CHOOSE k \in st..Len(bs) : bs[k] = Dot /\ \A m \in st..(k - 1) : bs[m] # Dot) - 1
    ELSE Len(bs)

\* The n-th of a set of offsets, in increasing order.
nth_start(starts, n) ==
    CHOOSE st \in starts : Cardinality({x \in starts : x < st}) = n - 1

\* domain.split('.'): the parts between the dots, empty parts included.
split(bs) ==
    [n \in 1..Cardinality(part_starts(bs)) |->
        SubSeq(bs, nth_start(part_starts(bs), n),
               part_end(bs, nth_start(part_starts(bs), n)))]

\* Fault injection: the limit of a label taken from the DNS standard.
label_length_63(part) == IF Len(part) > 63 THEN 0 - 1 ELSE Len(part)

\* u8::try_from(part.len()): -1 stands for the failed conversion.
label_length(part) == IF Len(part) > 255 THEN 0 - 1 ELSE Len(part)

\* The loop over the parts: the packet so far, or the failure at the first
\* part that is too long.
RECURSIVE write_labels(_, _)
write_labels(parts, packet) ==
    IF parts = <<>> THEN [ok |-> TRUE, packet |-> packet]
    ELSE IF label_length(Head(parts)) < 0 THEN [ok |-> FALSE, packet |-> packet]
    ELSE write_labels(Tail(parts),
                      packet \o <<label_length(Head(parts))>> \o Head(parts))

\* The packet after the question: QNAME end, QTYPE A, QCLASS IN.
finish_packet(w) ==
    IF ~w.ok THEN w ELSE [ok |-> TRUE, packet |-> w.packet \o <<0, 0, 1, 0, 1>>]

build_packet(domain) == finish_packet(write_labels(split(domain), DnsHeader))

\* udp.recv(&mut resp): the datagram cut to the buffer.
received(datagram) == SubSeq(datagram, 1, Min(Len(datagram), RespBuf))

\* Fault injection: the address taken from where the first answer of the
\* shortest response ends.
answer_ip_fixed(resp) == SubSeq(resp, 27, 30)

\* &resp[length - 4..]
answer_ip(resp) == SubSeq(resp, Len(resp) - 3, Len(resp))

\* Fault injection: the answer count looked at before the response code.
parse_response_count_first(domain, resp) ==
    IF Len(resp) < 30 THEN DnsErr("ResponseTooShort")
    ELSE IF resp[7] * 256 + resp[8] = 0
    THEN DnsRes("err", "NoRecordFound", 0, <<>>, domain)
    ELSE IF resp[4] % 16 # 0
    THEN DnsRes("err", "DnsErrorCode", resp[4] % 16, <<>>, <<>>)
    ELSE DnsRes("ok", "", 0, answer_ip(resp), <<>>)

\* The checks on the response, in the order of the code.
parse_response(domain, resp) ==
    IF Len(resp) < 30 THEN DnsErr("ResponseTooShort")
    ELSE IF resp[4] % 16 # 0
    THEN DnsRes("err", "DnsErrorCode", resp[4] % 16, <<>>, <<>>)
    ELSE IF resp[7] * 256 + resp[8] = 0
    THEN DnsRes("err", "NoRecordFound", 0, <<>>, domain)
    ELSE DnsRes("ok", "", 0, answer_ip(resp), <<>>)

\* The resolver's state: where query_dns_for_domain is, its argument, the
\* packet built, the datagrams sent and received so far, the result.
DnsState(stage, domain, packet, sent, resp, recvd, result) ==
    [stage |-> stage, domain |-> domain, packet |-> packet, sent |-> sent,
     resp |-> resp, recvd |-> recvd, result |-> result]

\* No resolve is running.
DnsOff == DnsState("off", <<>>, <<>>, <<>>, <<>>, 0, DnsNoRes)

\* query_dns_for_domain(domain) was called.
DnsCalled(domain) == DnsState("called", domain, <<>>, <<>>, <<>>, 0, DnsNoRes)

----------------------------------------------------------------------------
(* The inputs of the resolver: domains and datagrams.                      *)

MaxDomainLen == 2

MaxAnswers == 1

\* 'a' and '.'
DomainBytes == {97, Dot}

Repeat(b, n) == [i \in 1..n |-> b]

\* "example.com"
ExampleCom == <<101, 120, 97, 109, 112, 108, 101, 46, 99, 111, 109>>

DnsDomains ==
    UNION {[1..n -> DomainBytes] : n \in 0..MaxDomainLen}
    \cup { ExampleCom, Repeat(97, 63), Repeat(97, 64), Repeat(97, 255),
           Repeat(97, 256), <<97, Dot>> \o Repeat(98, 255) \o <<Dot, 99>>,
           <<97, Dot>> \o Repeat(98, 256) \o <<Dot, 99>>,
           Repeat(97, 300) \o <<Dot>> \o Repeat(98, 300) }

\* A datagram of n bytes: byte 3 is flags, bytes 6-7 the answer count, the
\* last 4 bytes tail, 9 where nothing else is.
Datagram(n, flags, count, tail) ==
    [i \in 1..n |->
        IF i = 4 THEN flags
        ELSE IF i = 7 THEN count \div 256
        ELSE IF i = 8 THEN count % 256
        ELSE IF i > n - 4 THEN tail[i - (n - 4)]
        ELSE 9]

DnsDatagrams ==
    {Datagram(n, flags, count, tail) :
        n \in {0, 3, 29, 30, 31, 45, RespBuf, RespBuf + 8},
        flags \in {0, 3, 128, 143},
        count \in (0..MaxAnswers) \cup {256},
        tail \in {<<1, 2, 3, 4>>, <<93, 184, 216, 34>>}}

----------------------------------------------------------------------------
(* The progress modal of the GUI (src/src/ipinfo_gui.rs): one run of the   *)
(* idle callback of show_progress_modal.  A channel is the sequence of the *)
(* messages in flight and the senders that are alive.                      *)

\* rx.try_recv(): Ok(first message) | Err(Empty) | Err(Disconnected)
try_recv(chan, senders) ==
    IF chan # <<>> THEN "Ok" ELSE IF senders > 0 THEN "Empty" ELSE "Disconnected"

\* if let Some(callback) = on_complete.take()
callback_runs(callbacks) == callbacks = 0

\* What one run of the idle callback does with what try_recv gave and what
\* to_progress made of the event: "progress" (the bar is updated),
\* "complete" (the window is hidden, the callback is taken and run, the idle
\* callback removed), "closed" (hidden and removed, no callback), "idle".
modal_step(got, mapsToProgress) ==
    CASE got = "Ok" /\ mapsToProgress -> "progress"
      [] got = "Ok" /\ ~mapsToProgress -> "complete"
      [] got = "Disconnected" -> "closed"
      [] OTHER -> "idle"

----------------------------------------------------------------------------
(* The downloader (src/src/downloader.rs): the worker thread of            *)
(* download_default_mmdb, with the consumer of its channel: the loop of    *)
(* the command line tool (src/src/ipinfo.rs) or the modal of the GUI.      *)
(* The file is the number of bytes written through to it; the BufWriter    *)
(* the number of bytes it holds.                                           *)

\* DownloadEvent::Progress(..), sent after byte n was written
Progress(n) == [t |-> "Progress", n |-> n]

\* DownloadEvent::Done(path)
Done == [t |-> "Done", n |-> 0]

\* BufWriter::write of one byte: a full buffer is written out first, then
\* the byte is kept in the buffer.
buffered_after_write(buf, cap) == IF buf + 1 > cap THEN 1 ELSE buf + 1

written_after_write(buf, disk, cap) == IF buf + 1 > cap THEN disk + buf ELSE disk

\* |event| match event { Progress(p) => Some(..), Done(_) => None }
download_to_progress(event) == event.t = "Progress"

\* Fault injection: the loop of the command line tool ends as soon as no
\* event is waiting.
cli_loop_ends_when_empty(chan, senders) == chan = <<>>

\* for event in rx.iter(): the iterator ends when the channel is empty and
\* every sender is dropped; it blocks while a sender is alive.
cli_loop_ends(chan, senders) == chan = <<>> /\ senders = 0

\* The worker, the writer and the file, the channel, the consumer.
\*   wpc: "get" | "create" | "loop" | "drop_writer" | "drop_tx" | "exit" |
\*        "panicked";  consumer: "cli" | "gui";  cpc: "recv" | "ended" |
\*        "opened"
DlState(total, consumer) ==
    [ total |-> total, left |-> total, wpc |-> "get", created |-> FALSE,
      buf |-> 0, disk |-> 0,
      chan |-> <<>>, senders |-> 1, sent |-> <<>>,
      consumer |-> consumer, cpc |-> "recv", recvd |-> <<>>,
      callbacks |-> 0, callbackOn |-> <<>>, pathSet |-> FALSE,
      endedWithSenders |-> 0 - 1,
      diskAtDone |-> 0 - 1, diskAtOpen |-> 0 - 1 ]

\* No download is running.
DlOff == [DlState(0, "none") EXCEPT !.wpc = "off", !.cpc = "off", !.senders = 0]

----------------------------------------------------------------------------
(* The domain query of the GUI (src/src/ipinfo_gui.rs, Message::SendQuery): *)
(* the resolver thread, the progress channel that feeds the modal, the     *)
(* result channel, and the completion callback.  The handler has returned, *)
(* so the only sender of each channel is the one the thread owns.          *)

\* QueryProgress::to_progress(): Started and DnsResolved are progress,
\* Completed is the final event.
query_to_progress(event) == event # "Completed"

\* A channel after one try_recv(): the first message, if any, is gone.
after_try_recv(chan) == IF chan = <<>> THEN chan ELSE Tail(chan)

\* if let Ok(Ok(ip)) = result_rx.try_recv()
first_is_ok(rchan) == rchan # <<>> /\ Head(rchan).kind = "ok"

\* else if let Ok(Err(e)) = result_rx.try_recv(): a second receive, on what
\* the first one left.
second_is_err(rchan) ==
    after_try_recv(rchan) # <<>> /\ Head(after_try_recv(rchan)).kind = "err"

\* The text the callback puts in the buffer when the address resolved: by
\* the result of mmdb.query_ip(ip).
text_of_query(result) ==
    CASE result = "some" -> "resolved_data"
      [] result = "none" -> "resolved_no_data"
      [] OTHER -> "query_error"

\* The thread, the two channels, the modal and what the callback did.
\*   tpc: "start" | "resolve" | "resolved" | "result" | "completed" | "end" |
\*        "exit";  mpc: "recv" | "ended"
GqStart ==
    [ tpc |-> "start", outcome |-> DnsNoRes,
      chan |-> <<>>, senders |-> 1, rchan |-> <<>>, rsenders |-> 1,
      sent |-> <<>>,
      mpc |-> "recv", callbacks |-> 0, callbackOn |-> <<>>,
      resultAtCallback |-> <<>>,
      queries |-> <<>>, text |-> "previous" ]

\* No domain query is running.
GqOff == [GqStart EXCEPT !.tpc = "off", !.mpc = "off", !.senders = 0, !.rsenders = 0]

----------------------------------------------------------------------------
(* The state machine: one handle over one file.                            *)

NoOpen == OpenRes("none", "", MdNone, 0 - 1)

NoQuery == [op |-> "none", v |-> 0, a |-> <<>>,
            res |-> QRes("none", FALSE, NoVal, "", 0, <<>>, <<>>, 0 - 1)]

Init ==
    /\ file \in Files
    /\ checked \in BOOLEAN
    /\ eofStay \in BOOLEAN
    /\ phase = "closed"
    /\ metadata = MdNone
    /\ cursor = 0
    /\ openRes = NoOpen
    /\ last = NoQuery
    /\ dns = DnsOff
    /\ dl = DlOff
    /\ gq = GqOff

\* The effect of Mmdb::new that ended as r.
Opened(r) ==
    /\ openRes' = r
    /\ phase' = CASE r.kind = "ok" -> "open"
                  [] r.kind = "err" -> "failed"
                  [] OTHER -> "aborted"
    /\ metadata' = r.md
    /\ cursor' = 0
    /\ UNCHANGED <<file, checked, eofStay, last, dns, dl, gq>>

\* Mmdb::new(reader)
New ==
    /\ phase = "closed"
    /\ Opened(Mmdb_new(file))

\* The effect of a query that ended as r.
Finish(op, v, a, r) ==
    /\ last' = [op |-> op, v |-> v, a |-> a, res |-> r]
    /\ cursor' = r.pos
    /\ phase' = IF r.kind \in {"panic", "diverge"} THEN "aborted" ELSE phase
    /\ UNCHANGED <<file, checked, eofStay, metadata, openRes, dns, dl, gq>>

QueryIpv4 ==
    /\ phase = "open"
    /\ \E a \in V4Addrs : Finish("query_ipv4", 4, a, query_ipv4(file, metadata, cursor, a))

QueryIpv6 ==
    /\ phase = "open"
    /\ \E a \in V6Addrs : Finish("query_ipv6", 6, a, query_ipv6(file, metadata, cursor, a))

QueryIp ==
    /\ phase = "open"
    /\ \E ip \in IpAddrs : Finish("query_ip", ip.v, ip.a, query_ip(file, metadata, cursor, ip))

Next == New \/ QueryIpv4 \/ QueryIpv6 \/ QueryIp

Spec == Init /\ [][Next]_vars

----------------------------------------------------------------------------
(* One call of query_dns_for_domain, step by step: each step that talks to *)
(* the socket may fail, and the datagram received is any datagram.         *)

mmdbVars == <<file, checked, eofStay, phase, metadata, cursor, openRes, last>>

DnsInit ==
    /\ file = Src(<<>>, 0, <<>>)
    /\ checked = FALSE
    /\ eofStay = FALSE
    /\ phase = "closed"
    /\ metadata = MdNone
    /\ cursor = 0
    /\ openRes = NoOpen
    /\ last = NoQuery
    /\ dns \in {DnsCalled(d) : d \in DnsDomains}
    /\ dl = DlOff
    /\ gq = GqOff

\* The call returns Err(e).
DnsFail(e) == dns' = [dns EXCEPT !.stage = "done", !.result = e]

\* UdpSocket::bind("0.0.0.0:0")
DnsBind ==
    /\ dns.stage = "called"
    /\ \/ dns' = [dns EXCEPT !.stage = "bound"]
       \/ DnsFail(DnsErr("BindFailed"))
    /\ UNCHANGED <<mmdbVars, dl, gq>>

\* udp.connect("1.1.1.1:53")
DnsConnect ==
    /\ dns.stage = "bound"
    /\ \/ dns' = [dns EXCEPT !.stage = "connected"]
       \/ DnsFail(DnsErr("ConnectFailed"))
    /\ UNCHANGED <<mmdbVars, dl, gq>>

\* The packet that was built, or DomainPartTooLong.
Built(w) ==
    IF w.ok THEN dns' = [dns EXCEPT !.stage = "built", !.packet = w.packet]
    ELSE DnsFail(DnsErr("DomainPartTooLong"))

\* header, QNAME, QTYPE, QCLASS
DnsBuild ==
    /\ dns.stage = "connected"
    /\ Built(build_packet(dns.domain))
    /\ UNCHANGED <<mmdbVars, dl, gq>>

\* udp.send(&packet)
DnsSend ==
    /\ dns.stage = "built"
    /\ \/ dns' = [dns EXCEPT !.stage = "sent", !.sent = Append(dns.sent, dns.packet)]
       \/ DnsFail(DnsErr("SendFailed"))
    /\ UNCHANGED <<mmdbVars, dl, gq>>

\* udp.recv(&mut resp)
DnsRecv ==
    /\ dns.stage = "sent"
    /\ \/ \E d \in DnsDatagrams :
             dns' = [dns EXCEPT !.stage = "received", !.resp = received(d),
                                !.recvd = dns.recvd + 1]
       \/ DnsFail(DnsErr("RecvFailed"))
    /\ UNCHANGED <<mmdbVars, dl, gq>>

\* the checks and the address
DnsParse ==
    /\ dns.stage = "received"
    /\ dns' = [dns EXCEPT !.stage = "done",
                          !.result = parse_response(dns.domain, dns.resp)]
    /\ UNCHANGED <<mmdbVars, dl, gq>>

DnsNext == DnsBind \/ DnsConnect \/ DnsBuild \/ DnsSend \/ DnsRecv \/ DnsParse

DnsSpec == DnsInit /\ [][DnsNext]_vars

----------------------------------------------------------------------------
(* One run of download_default_mmdb: the worker thread and the consumer of *)
(* its channel run side by side.  Every unwrap() of the worker may panic;  *)
(* a panic unwinds the thread, which drops the writer and the sender.      *)

MaxBytes == 3

\* The capacity of the BufWriter, scaled down from the 8 KiB of the
\* standard library.
BufCap == 2

DlInit ==
    /\ file = Src(<<>>, 0, <<>>)
    /\ checked = FALSE
    /\ eofStay = FALSE
    /\ phase = "closed"
    /\ metadata = MdNone
    /\ cursor = 0
    /\ openRes = NoOpen
    /\ last = NoQuery
    /\ dns = DnsOff
    /\ gq = GqOff
    /\ dl \in {DlState(t, c) : t \in 0..MaxBytes, c \in {"cli", "gui"}}

\* An unwrap() of the worker panics: the thread unwinds, the writer that was
\* created is dropped, which writes its buffer out, and the sender is dropped.
WorkerPanics ==
    dl' = [dl EXCEPT !.wpc = "panicked", !.disk = dl.disk + dl.buf, !.buf = 0,
                     !.senders = 0]

\* tinyget::get(URL).send_lazy().unwrap()
WorkerGet ==
    /\ dl.wpc = "get"
    /\ \/ dl' = [dl EXCEPT !.wpc = "create"]
       \/ WorkerPanics
    /\ UNCHANGED <<mmdbVars, dns, gq>>

\* BufWriter::new(File::create(&path).unwrap())
WorkerCreate ==
    /\ dl.wpc = "create"
    /\ \/ dl' = [dl EXCEPT !.wpc = "loop", !.created = TRUE]
       \/ WorkerPanics
    /\ UNCHANGED <<mmdbVars, dns, gq>>

\* One turn of the loop: the byte, writer.write_u8(byte), tx.send(Progress).
WorkerByte ==
    /\ dl.wpc = "loop"
    /\ dl.left > 0
    /\ \/ dl' = [dl EXCEPT !.left = dl.left - 1,
                           !.buf = buffered_after_write(dl.buf, BufCap),
                           !.disk = written_after_write(dl.buf, dl.disk, BufCap),
                           !.chan = Append(dl.chan, Progress(dl.total - dl.left + 1)),
                           !.sent = Append(dl.sent, Progress(dl.total - dl.left + 1))]
       \/ WorkerPanics
    /\ UNCHANGED <<mmdbVars, dns, gq>>

\* tx.send(DownloadEvent::Done(path)).unwrap() after the loop
WorkerDone ==
    /\ dl.wpc = "loop"
    /\ dl.left = 0
    /\ dl' = [dl EXCEPT !.wpc = "drop_writer",
                        !.chan = Append(dl.chan, Done),
                        !.sent = Append(dl.sent, Done)]
    /\ UNCHANGED <<mmdbVars, dns, gq>>

\* The closure ends: the writer goes out of scope and writes its buffer out.
WorkerDropWriter ==
    /\ dl.wpc = "drop_writer"
    /\ dl' = [dl EXCEPT !.wpc = "drop_tx", !.disk = dl.disk + dl.buf, !.buf = 0]
    /\ UNCHANGED <<mmdbVars, dns, gq>>

\* The closure is dropped, and the sender it captured with it.
WorkerDropTx ==
    /\ dl.wpc = "drop_tx"
    /\ dl' = [dl EXCEPT !.wpc = "exit", !.senders = 0]
    /\ UNCHANGED <<mmdbVars, dns, gq>>

\* The consumer took the first event of the channel.
Taken ==
    [dl EXCEPT !.chan = Tail(dl.chan), !.recvd = Append(dl.recvd, Head(dl.chan)),
               !.diskAtDone = IF Head(dl.chan).t = "Done" THEN dl.disk
                              ELSE dl.diskAtDone]

\* for event in rx.iter() { .. }: one event
CliRecv ==
    /\ dl.consumer = "cli"
    /\ dl.cpc = "recv"
    /\ dl.chan # <<>>
    /\ dl' = Taken
    /\ UNCHANGED <<mmdbVars, dns, gq>>

\* the loop ends; drop(handle)
CliEnd ==
    /\ dl.consumer = "cli"
    /\ dl.cpc = "recv"
    /\ cli_loop_ends(dl.chan, dl.senders)
    /\ dl' = [dl EXCEPT !.cpc = "ended", !.endedWithSenders = dl.senders]
    /\ UNCHANGED <<mmdbVars, dns, gq>>

\* std::fs::File::open(db_path) after the download
CliOpen ==
    /\ dl.consumer = "cli"
    /\ dl.cpc = "ended"
    /\ dl' = [dl EXCEPT !.cpc = "opened", !.diskAtOpen = dl.disk]
    /\ UNCHANGED <<mmdbVars, dns, gq>>

\* The completion callback of the download button: on Done(path) the button
\* is hidden and the path put in the input bar.
GuiCompleted ==
    [Taken EXCEPT !.cpc = "ended",
                  !.callbacks = IF callback_runs(dl.callbacks) THEN dl.callbacks + 1
                                ELSE dl.callbacks,
                  !.callbackOn = Append(dl.callbackOn, Head(dl.chan)),
                  !.pathSet = Head(dl.chan).t = "Done"]

\* What the modal does for the outcome `step` of its idle callback.
GuiAfter(step) ==
    CASE step = "progress" -> dl' = Taken
      [] step = "complete" -> dl' = GuiCompleted
      [] step = "closed" -> dl' = [dl EXCEPT !.cpc = "ended",
                                             !.endedWithSenders = dl.senders]
      [] OTHER -> FALSE

\* One run of the idle callback of the modal of the download.
GuiIdle ==
    /\ dl.consumer = "gui"
    /\ dl.cpc = "recv"
    /\ GuiAfter(modal_step(try_recv(dl.chan, dl.senders),
                           dl.chan # <<>> /\ download_to_progress(Head(dl.chan))))
    /\ UNCHANGED <<mmdbVars, dns, gq>>

DlNext ==
    \/ WorkerGet \/ WorkerCreate \/ WorkerByte \/ WorkerDone
    \/ WorkerDropWriter \/ WorkerDropTx
    \/ CliRecv \/ CliEnd \/ CliOpen \/ GuiIdle

DlSpec == DlInit /\ [][DlNext]_vars

----------------------------------------------------------------------------
(* One domain query of the GUI: the resolver thread and the modal run side *)
(* by side.  The sends of the thread are `let _ =` and cannot panic.       *)

\* What query_dns_for_domain may return: an address or one of its errors.
ResolverOutcomes ==
    {DnsRes("ok", "", 0, ip, <<>>) : ip \in {<<1, 2, 3, 4>>, <<93, 184, 216, 34>>}}
    \cup {DnsErr(e) : e \in {"BindFailed", "ConnectFailed", "SendFailed",
                            "RecvFailed", "DomainPartTooLong", "ResponseTooShort",
                            "DnsErrorCode", "NoRecordFound"}}

\* What mmdb.query_ip(ip) may return: Ok(Some), Ok(None), Err.
QueryOutcomes == {"some", "none", "err"}

GqInit ==
    /\ file = Src(<<>>, 0, <<>>)
    /\ checked = FALSE
    /\ eofStay = FALSE
    /\ phase = "closed"
    /\ metadata = MdNone
    /\ cursor = 0
    /\ openRes = NoOpen
    /\ last = NoQuery
    /\ dns = DnsOff
    /\ dl = DlOff
    /\ gq = GqStart

\* tx_clone.send(event) and the place the thread goes to next
ProgressSent(event, next) ==
    gq' = [gq EXCEPT !.tpc = next, !.chan = Append(gq.chan, event),
                     !.sent = Append(gq.sent, event)]

\* tx_clone.send(QueryProgress::Started)
ResolverStarted ==
    /\ gq.tpc = "start"
    /\ ProgressSent("Started", "resolve")
    /\ UNCHANGED <<mmdbVars, dns, dl>>

\* match mmdb::dns::query_dns_for_domain(&msg_clone)
ResolverResolve ==
    /\ gq.tpc = "resolve"
    /\ \E o \in ResolverOutcomes :
          gq' = [gq EXCEPT !.outcome = o,
                           !.tpc = IF o.kind = "ok" THEN "resolved" ELSE "result"]
    /\ UNCHANGED <<mmdbVars, dns, dl>>

\* Ok(ip): tx_clone.send(QueryProgress::DnsResolved)
ResolverResolved ==
    /\ gq.tpc = "resolved"
    /\ ProgressSent("DnsResolved", "result")
    /\ UNCHANGED <<mmdbVars, dns, dl>>

\* result_tx.send(Ok(ip)) or result_tx.send(Err(MmdbError::DnsError(e)))
ResolverResult ==
    /\ gq.tpc = "result"
    /\ gq' = [gq EXCEPT !.tpc = "completed", !.rchan = Append(gq.rchan, gq.outcome),
                        !.sent = Append(gq.sent, "Result")]
    /\ UNCHANGED <<mmdbVars, dns, dl>>

\* tx_clone.send(QueryProgress::Completed)
ResolverCompleted ==
    /\ gq.tpc = "completed"
    /\ ProgressSent("Completed", "end")
    /\ UNCHANGED <<mmdbVars, dns, dl>>

\* The thread ends: its two senders are dropped.
ResolverExit ==
    /\ gq.tpc = "end"
    /\ gq' = [gq EXCEPT !.tpc = "exit", !.senders = 0, !.rsenders = 0]
    /\ UNCHANGED <<mmdbVars, dns, dl>>

\* The modal took the first event of the progress channel.
QueryTaken == [gq EXCEPT !.chan = Tail(gq.chan)]

\* The callback begins: the modal is over.
CallbackEntered ==
    [QueryTaken EXCEPT !.mpc = "ended",
                       !.callbacks = IF callback_runs(gq.callbacks)
                                     THEN gq.callbacks + 1 ELSE gq.callbacks,
                       !.callbackOn = Append(gq.callbackOn, Head(gq.chan)),
                       !.resultAtCallback = gq.rchan]

\* The completion callback of the domain query: the first try_recv, the one
\* query of the address it gave, or else the second try_recv.
QueryCallback ==
    IF first_is_ok(gq.rchan)
    THEN \E q \in QueryOutcomes :
            gq' = [CallbackEntered EXCEPT !.rchan = after_try_recv(gq.rchan),
                                          !.queries = Append(gq.queries, Head(gq.rchan).ip),
                                          !.text = text_of_query(q)]
    ELSE gq' = [CallbackEntered EXCEPT
                   !.rchan = after_try_recv(after_try_recv(gq.rchan)),
                   !.text = IF second_is_err(gq.rchan) THEN "dns_error" ELSE gq.text]

\* What the modal does for the outcome `step` of its idle callback.
QueryAfter(step) ==
    CASE step = "progress" -> gq' = QueryTaken
      [] step = "complete" -> QueryCallback
      [] step = "closed" -> gq' = [gq EXCEPT !.mpc = "ended"]
      [] OTHER -> FALSE

\* One run of the idle callback of the modal of the domain query.
QueryIdle ==
    /\ gq.mpc = "recv"
    /\ QueryAfter(modal_step(try_recv(gq.chan, gq.senders),
                             gq.chan # <<>> /\ query_to_progress(Head(gq.chan))))
    /\ UNCHANGED <<mmdbVars, dns, dl>>

GqNext ==
    \/ ResolverStarted \/ ResolverResolve \/ ResolverResolved \/ ResolverResult
    \/ ResolverCompleted \/ ResolverExit \/ QueryIdle

GqSpec == GqInit /\ [][GqNext]_vars

----------------------------------------------------------------------------
(* Properties of the trie walker.                                          *)

\* The record selected last by the latest query (-1 when none was).
LastSel ==
    IF last.res.sels = <<>> THEN 0 - 1 ELSE last.res.sels[Len(last.res.sels)]

\* record - node_count - 16 + search_tree_size + 16, in the integers
ClaimedDataOffset(v) ==
    v - metadata.node_count - 16
    + bytes_per_node(metadata.record_size) * metadata.node_count + 16

\* C1: whenever the record selected last exceeds node_count (the records
\* node_count + 1 .. node_count + 15 included), the offset computation does not
\* abort, a value is decoded at record - node_count - 16 + search_tree_size + 16
\* and a decoded value is returned as Some.
C1_DataOffsetForEveryRecord ==
    (last.op # "none" /\ LastSel > metadata.node_count)
    => /\ last.res.dataPos = ClaimedDataOffset(LastSel)
       /\ (last.res.kind = "ok" => last.res.some)

\* C2: a selected record equal to node_count is the last step of the walk:
\* no node is read after it, nothing is decoded and the query returns Ok(None).
C2_NoDataEndsTheWalk ==
    \A k \in 1..Len(last.res.sels) :
        last.res.sels[k] = metadata.node_count
        => /\ k = Len(last.res.sels)
           /\ Len(last.res.reads) = k
           /\ last.res.kind = "ok"
           /\ ~last.res.some
           /\ last.res.val = NoVal
           /\ last.res.dataPos = 0 - 1

\* A walk that went through a node before it met node_count.
C2_Witness ==
    /\ Len(last.res.sels) >= 2
    /\ LastSel = metadata.node_count
    /\ last.res.kind = "ok"
    /\ ~last.res.some

----------------------------------------------------------------------------
(* Properties of the decoder.                                              *)

\* The byte at p of the file opens a pointer whose payload is in the file.
PtrAt(p) ==
    /\ p >= 0
    /\ p < SrcLen(file)
    /\ ByteAt(file, p) \div 32 = 1
    /\ p + 2 + ((ByteAt(file, p) % 32) \div 8) <= SrcLen(file)

\* The offset just after the encoding of the pointer at p.
PtrEnd(p) == p + 2 + ((ByteAt(file, p) % 32) \div 8)

\* The value decoded at p on its own, as a query decodes it.
ValueAt(p) == read_type(file, p, metadata, {})

\* The value decoded at p on its own, as Mmdb::new decodes it.
MetaValueAt(p) == read_type(file, p, MdNone, {})

\* The array at p has two elements or more and the first is a pointer.
ArrayOfPtrAt(p) ==
    /\ p >= 0
    /\ p + 2 < SrcLen(file)
    /\ ByteAt(file, p) \div 32 = 0
    /\ ByteAt(file, p) % 32 \in 2..28
    /\ ByteAt(file, p + 1) = 4
    /\ PtrAt(p + 2)

\* The map at p has two entries, the first a one-byte key with a pointer.
MapOfPtrAt(p) ==
    /\ p >= 0
    /\ p + 3 < SrcLen(file)
    /\ ByteAt(file, p) = 226
    /\ ByteAt(file, p + 1) = 65
    /\ PtrAt(p + 3)

\* The entry decoded after the pointer of the map at p: its key, then its value.
EntryAfter(key) ==
    IF key.kind # "ok" THEN NoVal ELSE ValueAt(key.pos).val

KeyAfter(key) == IF key.kind # "ok" THEN <<>> ELSE key.val.v

\* C3: a pointer decoded with metadata leaves the cursor just after its own
\* encoding, whether its target gave a value or an error; the array element or
\* the map entry after a pointer is the value encoded right after the pointer.
C3_PointerRestoresCursor ==
    /\ (PtrAt(last.res.dataPos) /\ last.res.kind \in {"ok", "err"})
       => cursor = PtrEnd(last.res.dataPos)
    /\ (ArrayOfPtrAt(last.res.dataPos) /\ last.res.kind = "ok")
       => last.res.val.v[2] = ValueAt(PtrEnd(last.res.dataPos + 2)).val
    /\ (MapOfPtrAt(last.res.dataPos) /\ last.res.kind = "ok")
       => /\ KeyAfter(ValueAt(PtrEnd(last.res.dataPos + 3))) \in DOMAIN last.res.val.v
          /\ last.res.val.v[KeyAfter(ValueAt(PtrEnd(last.res.dataPos + 3)))]
             = EntryAfter(ValueAt(PtrEnd(last.res.dataPos + 3)))

\* A pointer whose target failed to decode, the cursor after the pointer.
C3_Witness ==
    /\ PtrAt(last.res.dataPos)
    /\ last.res.kind = "err"
    /\ last.res.err = "BadIo"
    /\ cursor = PtrEnd(last.res.dataPos)

\* The offset of the bytes that follow the control byte (and the tag byte of
\* an escaped tag) of the value at p.
SizeBytesAt(p) == IF ByteAt(file, p) \div 32 = 0 THEN p + 2 ELSE p + 1

\* The size of the value at p by the formulas of the format.
ClaimedSize(p) ==
    CASE ByteAt(file, p) % 32 <= 28 -> ByteAt(file, p) % 32
      [] ByteAt(file, p) % 32 = 29 -> 29 + ByteAt(file, SizeBytesAt(p))
      [] ByteAt(file, p) % 32 = 30 ->
            285 + ByteAt(file, SizeBytesAt(p)) * 256 + ByteAt(file, SizeBytesAt(p) + 1)
      [] OTHER ->
            65821 + ByteAt(file, SizeBytesAt(p)) * 65536
            + ByteAt(file, SizeBytesAt(p) + 1) * 256 + ByteAt(file, SizeBytesAt(p) + 2)

\* A value that is no pointer starts at p, with its tag and size bytes in the
\* file and a tag that is itself in range.
SizedValueAt(p) ==
    /\ p >= 0
    /\ SizeBytesAt(p) + 3 <= SrcLen(file)
    /\ ByteAt(file, p) \div 32 # 1
    /\ (ByteAt(file, p) \div 32 = 0 => ByteAt(file, p + 1) <= 248)

\* C4: the size decoded for a value that is no pointer is the hint for hints
\* 0..28, 29 + b for hint 29, 285 + w for hint 30 and 65821 + t for hint 31,
\* for every following byte(s), without overflow, wrap-around or abort.
C4_SizeByHint ==
    SizedValueAt(last.res.dataPos)
    => /\ read_control(file, last.res.dataPos).kind = "ok"
       /\ read_control(file, last.res.dataPos).val.v.size
          = ClaimedSize(last.res.dataPos)

----------------------------------------------------------------------------
(* Properties of Mmdb::new.                                                *)

\* Mmdb::new has just returned (or panicked): no query was issued yet.  The
\* file and what the open returned do not change afterwards.
Opening == phase # "closed" /\ last.op = "none"

\* The first offset of the file that Mmdb::new scans.
WindowStart == IF SrcLen(file) < TailWindow THEN 0 ELSE SrcLen(file) - TailWindow

\* C5: the metadata is decoded right after an occurrence of the marker in the
\* scanned window, and no occurrence of the marker starts further right.
C5_RightmostMarker ==
    (Opening /\ openRes.at >= 0)
    => /\ openRes.at - Len(METADATA_MARKER) >= WindowStart
       /\ marker_at(file, openRes.at - Len(METADATA_MARKER))
       /\ \A q \in (openRes.at - Len(METADATA_MARKER) + 1)
                   ..(SrcLen(file) - Len(METADATA_MARKER)) : ~marker_at(file, q)

\* Two occurrences in the window: the handle holds the metadata of the second.
C5_Witness ==
    /\ phase = "open"
    /\ metadata.ip_version = 6
    /\ \E q \in WindowStart..(openRes.at - 2 * Len(METADATA_MARKER)) :
          /\ marker_at(file, q)
          /\ MetaValueAt(q + Len(METADATA_MARKER)).kind = "ok"
          /\ MetaValueAt(q + Len(METADATA_MARKER)).val.t = "Map"

----------------------------------------------------------------------------
(* The end-to-end scenario.                                                *)

\* C6: on the database of one node (left record 1, right record 17,
\* record_size 24, "hit" at file offset 22) an IPv4 query returns None for an
\* address whose top bit is 0 and Some(Utf8String("hit")) for one whose top
\* bit is 1.
C6_HitScenario ==
    (file = HitDb /\ last.op \in {"query_ipv4", "query_ip"} /\ last.v = 4)
    => /\ last.res.kind = "ok"
       /\ (last.a[1] < 128 => (~last.res.some /\ last.res.val = NoVal))
       /\ (last.a[1] >= 128 => /\ last.res.some
                               /\ last.res.val = V("Utf8String", StrHit)
                               /\ last.res.dataPos = 22)

C6_Witness ==
    /\ file = HitDb
    /\ last.op = "query_ipv4"
    /\ last.a[1] >= 128
    /\ last.res.some
    /\ last.res.val = V("Utf8String", <<104, 105, 116>>)

----------------------------------------------------------------------------
(* Properties of the query entry points.                                   *)

\* ::a.b.c.d as the eight segments of an Ipv6Addr
CompatibleOf(a) == <<0, 0, 0, 0, 0, 0, a[1] * 256 + a[2], a[3] * 256 + a[4]>>

\* C7: on a handle of ip_version 6 an IPv4 query of a gives what the IPv6
\* query of ::a gives, which is the walk of the 128 bits 0^96 a from the root.
C7_V4OnV6IsCompatible ==
    (metadata.ip_version = 6 /\ last.op = "query_ipv4")
    => /\ last.res = query_ipv6(file, metadata, 0, CompatibleOf(last.a))
       /\ last.res = query_ip_uint(file, metadata, Zeros(12) \o last.a, 128)

\* An IPv4 query that walked past the 96 zero bits and found a value.
C7_Witness ==
    /\ metadata.ip_version = 6
    /\ last.op = "query_ipv4"
    /\ Len(last.res.reads) > 96
    /\ last.res.some

\* C8: on a handle of ip_version 4 every query of an IPv6 address fails with
\* WrongDatabaseType, reads no node, decodes nothing and leaves the cursor.
C8_V6OnV4Fails ==
    [][(phase = "open" /\ metadata.ip_version = 4 /\ last'.v = 6)
       => /\ last'.res.kind = "err"
          /\ last'.res.err = "WrongDatabaseType"
          /\ last'.res.reads = <<>>
          /\ last'.res.dataPos = 0 - 1
          /\ cursor' = cursor
          /\ phase' = "open"]_vars

\* An IPv6 query refused after an IPv4 query had moved the cursor.
C8_Witness ==
    /\ metadata.ip_version = 4
    /\ last.v = 6
    /\ last.res.err = "WrongDatabaseType"
    /\ cursor > 0

\* No occurrence of the marker starts in the scanned window.
NoMarker ==
    \A q \in WindowStart..(SrcLen(file) - Len(METADATA_MARKER)) : ~marker_at(file, q)

\* A decoded value that is no metadata: not a Map, or a required field that
\* is missing or of another variant.
NotMetadata(val) ==
    \/ val.t # "Map"
    \/ \E f \in { <<KeyNodeCount, "U32">>, <<KeyRecordSize, "U16">>,
                  <<KeyIpVersion, "U16">> } :
          f[1] \notin DOMAIN val.v \/ val.v[f[1]].t # f[2]

BadMetadataAt(r) == r.kind = "ok" /\ NotMetadata(r.val)

\* C9: Mmdb::new fails with MetadataNotFound when no marker is in the scanned
\* window, with InvalidMetadata when the value after the marker is no Map or
\* lacks a required field of the required variant; no handle is returned.
C9_OpenErrors ==
    Opening
    => /\ NoMarker => /\ openRes.kind = "err"
                      /\ openRes.err = "MetadataNotFound"
                      /\ phase = "failed"
                      /\ metadata = MdNone
       /\ (openRes.at >= 0 /\ BadMetadataAt(MetaValueAt(openRes.at)))
          => /\ openRes.kind = "err"
             /\ openRes.err = "InvalidMetadata"
             /\ phase = "failed"
             /\ metadata = MdNone

\* A Map with the three keys, one of them of another variant, is refused.
C9_Witness ==
    /\ phase = "failed"
    /\ openRes.err = "InvalidMetadata"
    /\ openRes.at >= 0
    /\ MetaValueAt(openRes.at).kind = "ok"
    /\ MetaValueAt(openRes.at).val.t = "Map"
    /\ {KeyNodeCount, KeyRecordSize, KeyIpVersion} \subseteq DOMAIN MetaValueAt(openRes.at).val.v

\* C10 as stated: every handle holds a record_size of 24, 28 or 32 and an
\* ip_version of 4 or 6.
C10_MetadataValidated ==
    openRes.kind = "ok"
    => /\ metadata.record_size \in {24, 28, 32}
       /\ metadata.ip_version \in {4, 6}

\* C10: a handle holds the record_size and ip_version of the file's metadata
\* map as they are, unchanged by any query; a query returns Ok only with a
\* record_size of 24, 28 or 32 and an ip_version of 4 or 6, and fails with
\* InvalidMetadata or WrongDatabaseType on every other handle.
C10_MetadataCheckedByQueries ==
    openRes.kind = "ok"
    => /\ metadata = openRes.md
       /\ metadata.some
       /\ Opening
          => /\ MetaValueAt(openRes.at).kind = "ok"
             /\ metadata.record_size = MetaValueAt(openRes.at).val.v[KeyRecordSize].v
             /\ metadata.ip_version = MetaValueAt(openRes.at).val.v[KeyIpVersion].v
       /\ (last.op # "none" /\ last.res.kind = "ok")
          => /\ metadata.record_size \in {24, 28, 32}
             /\ metadata.ip_version \in {4, 6}
       /\ (last.op # "none" /\ ~(/\ metadata.record_size \in {24, 28, 32}
                                 /\ metadata.ip_version \in {4, 6}))
          => /\ last.res.kind = "err"
             /\ last.res.err \in {"InvalidMetadata", "WrongDatabaseType"}

\* A handle with record_size 16, found out by a query.
C10_Witness ==
    /\ phase = "open"
    /\ metadata.record_size = 16
    /\ metadata.ip_version = 4
    /\ last.op = "query_ipv4"
    /\ last.res.err = "InvalidMetadata"

----------------------------------------------------------------------------
(* Properties of pointers.                                                 *)

\* What a decode gave, without the cursor.
Outcome(r) == [kind |-> r.kind, val |-> r.val, err |-> r.err]

\* The size field, the width and the payload of the pointer at p.
PtrSize(p) == ByteAt(file, p) % 32

PtrWidth(p) == PtrSize(p) \div 8

PtrPayload(p) == BE(Slice(file, p + 1, PtrWidth(p) + 1))

\* P of the pointer at p: the payload, the value bits shifted above it, the
\* bias of the width.
ClaimedPointer(p) ==
    CASE PtrWidth(p) = 0 -> PtrPayload(p) + (PtrSize(p) % 8) * 256
      [] PtrWidth(p) = 1 -> PtrPayload(p) + (PtrSize(p) % 8) * 65536 + 2048
      [] PtrWidth(p) = 2 -> PtrPayload(p) + (PtrSize(p) % 8) * 16777216 + 526336
      [] OTHER -> PtrPayload(p)

\* bytes_per_node(record_size) * node_count + 16 + P
ClaimedTarget(p) ==
    bytes_per_node(metadata.record_size) * metadata.node_count + 16 + ClaimedPointer(p)

\* P is in the range of the type it is computed in: u16 for width 0, u32 for
\* the other widths.
PointerFits(p) ==
    IF PtrWidth(p) = 0 THEN ClaimedPointer(p) < 65536
    ELSE ClaimedPointer(p) \div 65536 < 65536

\* C11: the target of a pointer is decoded at
\* bytes_per_node(record_size) * node_count + 16 + P, with P = byte +
\* (valueBits << 8), u16 + (valueBits << 16) + 2048, u24 + (valueBits << 24)
\* + 526336 or the 32-bit payload alone by the width, and P does not overflow.
C11_PointerTarget ==
    PtrAt(last.res.dataPos)
    => /\ pointer_value(PtrWidth(last.res.dataPos), PtrSize(last.res.dataPos) % 8,
                        PtrPayload(last.res.dataPos))
          = ClaimedPointer(last.res.dataPos)
       /\ PointerFits(last.res.dataPos)
       /\ Outcome(last.res)
          = Outcome(read_type(file, ClaimedTarget(last.res.dataPos), metadata,
                              {last.res.dataPos}))

\* A three-byte pointer with value bits whose target, 17303557 bytes into the
\* data section, is the string "b".
C11_Witness ==
    /\ PtrAt(last.res.dataPos)
    /\ PtrWidth(last.res.dataPos) = 2
    /\ PtrSize(last.res.dataPos) % 8 = 1
    /\ ClaimedTarget(last.res.dataPos) = 6 + 16 + 5 + 16777216 + 526336
    /\ last.res.some
    /\ last.res.val = V("Utf8String", StrB)

\* The map at p has an entry or more and the value of its first entry, after
\* a string key, is a pointer.
FirstEntryIsPtr(p) ==
    /\ p >= 0
    /\ p + 1 < SrcLen(file)
    /\ ByteAt(file, p) \in 225..252
    /\ ByteAt(file, p + 1) \in 64..92
    /\ PtrAt(p + 2 + (ByteAt(file, p + 1) - 64))

\* C12: a pointer decoded without metadata fails with InvalidData once its
\* payload is read, nothing being decoded at its target; Mmdb::new fails when
\* the metadata value is a pointer or a map with a pointer in it.
C12_PointerNeedsMetadata ==
    (Opening /\ openRes.at >= 0)
    => /\ \A p \in openRes.at..(SrcLen(file) - 1) :
             PtrAt(p) => MetaValueAt(p) = Err("InvalidData", PtrEnd(p))
       /\ (PtrAt(openRes.at) \/ FirstEntryIsPtr(openRes.at))
          => /\ openRes.kind = "err"
             /\ openRes.err = "InvalidData"
             /\ phase = "failed"
             /\ metadata = MdNone

\* A metadata map whose first entry is a pointer: the open failed.
C12_Witness ==
    /\ phase = "failed"
    /\ FirstEntryIsPtr(openRes.at)
    /\ openRes.err = "InvalidData"

----------------------------------------------------------------------------
(* Properties of the scalar branches of the decoder.                       *)

\* The value at p has an escaped tag: the tag is 7 + the byte at p + 1.
EscapedTagAt(p, tagByte) ==
    /\ p >= 0
    /\ p + 1 < SrcLen(file)
    /\ ByteAt(file, p) \div 32 = 0
    /\ ByteAt(file, p + 1) = tagByte

\* The size the decoder resolved for the value at p (-1 when it resolved none).
ResolvedSize(c) == IF c.kind # "ok" THEN 0 - 1 ELSE c.val.v.size

\* C13: a boolean (tag 14) whose size resolved to 0 is false, to 1 is true,
\* and of every other resolved size fails with InvalidData.
C13_BooleanBySize ==
    (EscapedTagAt(last.res.dataPos, 7)
     /\ ResolvedSize(read_control(file, last.res.dataPos)) >= 0)
    => Outcome(last.res)
       = CASE ResolvedSize(read_control(file, last.res.dataPos)) = 0
                -> Outcome(Ok(V("Boolean", FALSE), 0))
           [] ResolvedSize(read_control(file, last.res.dataPos)) = 1
                -> Outcome(Ok(V("Boolean", TRUE), 0))
           [] OTHER -> Outcome(Err("InvalidData", 0))

\* A boolean of size 285 (hint 30) refused.
C13_Witness ==
    /\ EscapedTagAt(last.res.dataPos, 7)
    /\ ResolvedSize(read_control(file, last.res.dataPos)) = 285
    /\ last.res.kind = "err"
    /\ last.res.err = "InvalidData"

\* C14: a value of tag 12 or 13 fails with NotImplemented, whatever its size
\* hint and whatever follows the tag, the end of the input included: both as
\* the value a query decodes and as the value Mmdb::new decodes.
C14_NotImplementedAlways ==
    /\ (EscapedTagAt(last.res.dataPos, 5) \/ EscapedTagAt(last.res.dataPos, 6))
       => (last.res.kind = "err" /\ last.res.err = "NotImplemented")
    /\ (phase # "closed"
        /\ (EscapedTagAt(openRes.at, 5) \/ EscapedTagAt(openRes.at, 6)))
       => (openRes.kind = "err" /\ openRes.err = "NotImplemented")

----------------------------------------------------------------------------
(* Properties of maps and of errors.                                       *)

\* One value decoded at p inside the value a query decodes.
ElemAt(p) == read_type(file, p, metadata, {last.res.dataPos})

\* The control of the value the latest query decoded.
LastCtl == read_control(file, last.res.dataPos)

\* The latest query decoded a value of this tag.
LastTagIs(t) ==
    /\ last.res.dataPos >= 0
    /\ LastCtl.kind = "ok"
    /\ LastCtl.val.v.typ = t

\* The key/value pairs decoded one after the other from p, n at most, up to
\* and with the first that fails or whose key is no string.
RECURSIVE MapPairs(_, _)
PairWith(key, val, n) ==
    IF val.kind # "ok" THEN <<[key |-> key, val |-> val]>>
    ELSE <<[key |-> key, val |-> val]>> \o MapPairs(val.pos, n - 1)

PairAfter(key, n) ==
    IF key.kind # "ok" \/ key.val.t # "Utf8String"
    THEN <<[key |-> key, val |-> key]>>
    ELSE PairWith(key, ElemAt(key.pos), n)

MapPairs(p, n) == IF n = 0 THEN <<>> ELSE PairAfter(ElemAt(p), n)

LastPairs == MapPairs(LastCtl.pos, LastCtl.val.v.size)

GoodPair(pr) ==
    pr.key.kind = "ok" /\ pr.key.val.t = "Utf8String" /\ pr.val.kind = "ok"

\* C15: a map of size n is the n key/value pairs that follow, decoded one
\* after the other; a key that is no string fails the decode with
\* InvalidData; of several entries with one key the last is kept, so the map
\* has n entries at most.
C15_MapSemantics ==
    LastTagIs(7)
    => /\ (last.res.kind = "ok")
          = (/\ Len(LastPairs) = LastCtl.val.v.size
             /\ \A i \in 1..Len(LastPairs) : GoodPair(LastPairs[i]))
       /\ last.res.kind = "ok"
          => /\ last.res.val.t = "Map"
             /\ DOMAIN last.res.val.v
                = {LastPairs[i].key.val.v : i \in 1..Len(LastPairs)}
             /\ \A i \in 1..Len(LastPairs) :
                   (\A j \in (i + 1)..Len(LastPairs) :
                       LastPairs[j].key.val.v # LastPairs[i].key.val.v)
                   => last.res.val.v[LastPairs[i].key.val.v] = LastPairs[i].val.val
             /\ Cardinality(DOMAIN last.res.val.v) <= LastCtl.val.v.size
             /\ cursor = IF LastPairs = <<>> THEN LastCtl.pos
                         ELSE LastPairs[Len(LastPairs)].val.pos
       /\ (\E i \in 1..Len(LastPairs) :
              LastPairs[i].key.kind = "ok" /\ LastPairs[i].key.val.t # "Utf8String")
          => (last.res.kind = "err" /\ last.res.err = "InvalidData")

\* Two entries with one key: the map holds one entry, the value of the second.
C15_Witness ==
    /\ LastTagIs(7)
    /\ LastCtl.val.v.size = 2
    /\ last.res.kind = "ok"
    /\ Cardinality(DOMAIN last.res.val.v) = 1
    /\ last.res.val.v[StrA] = V("U16", 2)

\* The elements decoded one after the other from p, n at most, up to and with
\* the first that fails.
RECURSIVE ArrayElems(_, _)
ElemThen(e, n) ==
    IF e.kind # "ok" THEN <<e>> ELSE <<e>> \o ArrayElems(e.pos, n - 1)

ArrayElems(p, n) == IF n = 0 THEN <<>> ELSE ElemThen(ElemAt(p), n)

LastElems == ArrayElems(LastCtl.pos, LastCtl.val.v.size)

\* The element at which the decoding of a sequence stopped.
FailedIn(elems) == elems # <<>> /\ elems[Len(elems)].kind = "err"

\* The key or the value at which the decoding of the pairs stopped.
FailedPair(pr) == IF pr.key.kind # "ok" THEN pr.key ELSE pr.val

\* The bits a query walks at most.
WalkBits == IF last.v = 4 /\ metadata.ip_version = 4 THEN 32 ELSE 128

\* C16: a map key, map value, array element or pointer target that fails to
\* decode fails the whole decode with the same error, no partial map or array
\* being returned; a query whose node read or value decode fails returns that
\* error, not Some and not None, and reads no node again.
C16_ErrorsPropagate ==
    /\ (LastTagIs(11) /\ FailedIn(LastElems))
       => Outcome(last.res) = Outcome(LastElems[Len(LastElems)])
    /\ (LastTagIs(7) /\ LastPairs # <<>>
        /\ FailedPair(LastPairs[Len(LastPairs)]).kind = "err")
       => Outcome(last.res) = Outcome(FailedPair(LastPairs[Len(LastPairs)]))
    /\ (PtrAt(last.res.dataPos)
        /\ ElemAt(ClaimedTarget(last.res.dataPos)).kind = "err")
       => Outcome(last.res) = Outcome(ElemAt(ClaimedTarget(last.res.dataPos)))
    /\ (last.res.dataPos >= 0 /\ ValueAt(last.res.dataPos).kind = "err")
       => Outcome(last.res) = Outcome(ValueAt(last.res.dataPos))
    /\ (last.res.reads # <<>>
        /\ last.res.reads[Len(last.res.reads)] + bytes_per_node(metadata.record_size)
           > SrcLen(file))
       => (last.res.kind = "err" /\ last.res.err = "BadIo")
    /\ last.res.kind = "err" => (~last.res.some /\ last.res.val = NoVal)
    /\ Len(last.res.reads) <= Len(last.res.sels) + 1
    /\ last.op # "none" => Len(last.res.reads) <= WalkBits

\* An array whose first element decoded and whose second failed: the query
\* returns the error of the second.
C16_Witness ==
    /\ LastTagIs(11)
    /\ Len(LastElems) = 2
    /\ LastElems[1].kind = "ok"
    /\ LastElems[2].kind = "err"
    /\ last.res.kind = "err"
    /\ last.res.err = "BadIo"
    /\ last.res.val = NoVal

----------------------------------------------------------------------------
(* Independence of queries.                                                *)

\* What a query gave and what it read, without the cursor it left.
Answer(r) ==
    [kind |-> r.kind, some |-> r.some, val |-> r.val, err |-> r.err,
     reads |-> r.reads, sels |-> r.sels, dataPos |-> r.dataPos]

\* C17: whatever queries went before it on the handle, a query gives what
\* the same query gives as the first on a fresh handle over the same bytes
\* (cursor 0, the metadata of the open): it starts at offset 0, and the
\* metadata of an open handle is the one the open returned.
C17_QueriesIndependent ==
    /\ phase = "open" => metadata = openRes.md
    /\ last.op # "none"
       => /\ Answer(last.res)
             = Answer(query_ip(file, openRes.md, 0, [v |-> last.v, a |-> last.a]))
          /\ last.res.reads # <<>> => last.res.reads[1] = 0
          /\ metadata = openRes.md

\* A query_ip that found the cursor moved by an earlier query and did not
\* move it.
C17_Witness ==
    /\ phase = "open"
    /\ last.op = "query_ip"
    /\ last.v = 6
    /\ metadata.ip_version = 4
    /\ last.res.kind = "err"
    /\ cursor > 0

\* ---------------------------------------------------------------------
\* The DNS question

\* The question of the packet that was built: what follows the header.
Question == SubSeq(dns.packet, Len(DnsHeader) + 1, Len(dns.packet))

\* The offsets of the question name that hold a length byte: the first one,
\* and the place of every dot of the domain.
LengthAt(d) == {1} \cup {i + 1 : i \in {k \in 1..Len(d) : d[k] = Dot}}

\* The number of bytes of the domain from offset j up to the next dot or the
\* end.
RunAfter(d, j) ==
    IF \E k \in j..Len(d) : d[k] = Dot
    THEN (CHOOSE k \in j..Len(d) : d[k] = Dot /\ \A m \in j..(k - 1) : d[m] # Dot) - j
    ELSE Len(d) - j + 1

\* The domain has a label of more than 255 bytes.
HasLongLabel(d) == \E p \in LengthAt(d) : RunAfter(d, p) > 255

\* The call came as far as the question.
ReachedQuestion ==
    /\ dns.stage \notin {"off", "called", "bound", "connected"}
    /\ dns.result.err \notin {"BindFailed", "ConnectFailed"}

\* [7]"example"[3]"com"[0], QTYPE 1, QCLASS 1
ExampleQuestion ==
    <<7, 101, 120, 97, 109, 112, 108, 101, 3, 99, 111, 109, 0, 0, 1, 0, 1>>

\* C18: the question name is the domain split on '.', every label written as
\* one length byte and the label's bytes, then a zero byte, then QTYPE 1 and
\* QCLASS 1 ("example.com" gives [7]"example"[3]"com"[0]); a domain whose
\* labels have at most 255 bytes is encoded, and a label of more than 255
\* bytes fails the call with DomainPartTooLong and nothing is sent.
C18_QuestionName ==
    /\ dns.packet # <<>> =>
          /\ Len(Question) = Len(dns.domain) + 6
          /\ \A p \in 1..(Len(dns.domain) + 1) :
                Question[p] = IF p \in LengthAt(dns.domain)
                              THEN RunAfter(dns.domain, p)
                              ELSE dns.domain[p - 1]
          /\ SubSeq(Question, Len(dns.domain) + 2, Len(dns.domain) + 6)
                = <<0, 0, 1, 0, 1>>
          /\ dns.domain = ExampleCom => Question = ExampleQuestion
    /\ ReachedQuestion =>
          /\ HasLongLabel(dns.domain) <=> dns.result.err = "DomainPartTooLong"
          /\ ~HasLongLabel(dns.domain) <=> dns.packet # <<>>
    /\ dns.result.err = "DomainPartTooLong" => dns.sent = <<>> /\ dns.recvd = 0
    /\ dns.sent # <<>> => dns.sent[1] = dns.packet

\* A domain with a label of 255 bytes between two others was encoded and
\* sent.
C18_Witness ==
    /\ dns.sent # <<>>
    /\ Len(dns.domain) > 255
    /\ Cardinality(LengthAt(dns.domain)) = 3
    /\ \E p \in LengthAt(dns.domain) : Question[p] = 255

\* ---------------------------------------------------------------------
\* The DNS response

\* The call received a response and looked at it.
Parsed == dns.stage = "done" /\ dns.recvd = 1

\* The response code of the response: the low nibble of byte 3.
Rcode(resp) == resp[4] % 16

\* The answer count of the response: bytes 6 and 7, big-endian.
AnswerCount(resp) == resp[7] * 256 + resp[8]

\* The last four bytes of a response of n bytes: bytes n-4 .. n-1.
LastFour(resp) ==
    <<resp[Len(resp) - 3], resp[Len(resp) - 2], resp[Len(resp) - 1],
      resp[Len(resp)]>>

\* C19: for a response of received length n >= 30 with response code 0 and
\* an answer count of at least 1, the call returns the IPv4 address made of
\* the last four bytes received, whatever else the response holds.
C19_LastFourBytes ==
    /\ ( /\ Parsed
         /\ Len(dns.resp) >= 30
         /\ Rcode(dns.resp) = 0
         /\ AnswerCount(dns.resp) >= 1 )
       => /\ dns.result.kind = "ok"
          /\ dns.result.ip = LastFour(dns.resp)
    /\ dns.result.kind = "ok" => dns.result.ip = LastFour(dns.resp)

\* A response longer than the shortest one, announcing 256 answers, with
\* other flag bits set, gave 93.184.216.34.
C19_Witness ==
    /\ Parsed
    /\ Len(dns.resp) > 30
    /\ dns.resp[4] = 128
    /\ AnswerCount(dns.resp) = 256
    /\ dns.result.kind = "ok"
    /\ dns.result.ip = <<93, 184, 216, 34>>

\* C20: the checks on the response run in a fixed order and the first that
\* fails decides the error: a length under 30 gives ResponseTooShort whatever
\* the response code and the answer count; otherwise a response code c other
\* than 0 gives DnsErrorCode(c) whatever the answer count; otherwise an
\* answer count of 0 gives NoRecordFound(domain). One query is sent and one
\* response is received, never more.
C20_ValidationOrder ==
    /\ Parsed /\ Len(dns.resp) < 30 =>
          dns.result = DnsErr("ResponseTooShort")
    /\ Parsed /\ Len(dns.resp) >= 30 /\ Rcode(dns.resp) # 0 =>
          /\ dns.result.err = "DnsErrorCode"
          /\ dns.result.code = Rcode(dns.resp)
    /\ Parsed /\ Len(dns.resp) >= 30 /\ Rcode(dns.resp) = 0
              /\ AnswerCount(dns.resp) = 0 =>
          /\ dns.result.err = "NoRecordFound"
          /\ dns.result.name = dns.domain
    /\ Len(dns.sent) <= 1
    /\ dns.recvd <= 1
    /\ dns.recvd = 1 => Len(dns.sent) = 1
    /\ dns.stage = "done" => dns.result.kind # "none"

\* A response of 30 bytes or more with response code 15 and no answers gave
\* DnsErrorCode(15), after one query.
C20_Witness ==
    /\ Parsed
    /\ Len(dns.resp) >= 30
    /\ dns.resp[4] = 143
    /\ AnswerCount(dns.resp) = 0
    /\ dns.result.err = "DnsErrorCode"
    /\ dns.result.code = 15
    /\ Len(dns.sent) = 1

\* ---------------------------------------------------------------------
\* The length of the walk

\* The u128 of the address of the last query.
LastIp == IF last.v = 4 THEN Zeros(12) \o last.a ELSE v6_to_bits(last.a)

\* The two records of the node at pos.
NodeAt(pos) == read_node(file, pos, bytes_per_node(metadata.record_size)).val.v

\* The bit examined by step k of the walk: num_bits - 1 first, 0 last.
StepBit(k) == Bit(LastIp, WalkBits - k)

\* C21: the walk examines the bits of the address from the most significant
\* (num_bits - 1) down to 0, reads one node per examined bit, the first at
\* offset 0, and never more than num_bits nodes; when every selected record
\* is below node_count until the bits run out, the query returns Ok(None).
C21_WalkBounded ==
    last.op # "none" =>
       /\ Len(last.res.reads) <= WalkBits
       /\ last.res.reads # <<>> => last.res.reads[1] = 0
       /\ Len(last.res.sels) <= Len(last.res.reads)
       /\ Len(last.res.reads) <= Len(last.res.sels) + 1
       /\ \A k \in 1..Len(last.res.sels) :
             last.res.sels[k] = NodeAt(last.res.reads[k])[StepBit(k) + 1]
       /\ ( /\ Len(last.res.sels) = WalkBits
            /\ \A k \in 1..WalkBits : last.res.sels[k] < metadata.node_count )
          => /\ last.res.kind = "ok"
             /\ ~last.res.some
             /\ last.res.dataPos = 0 - 1

\* A walk that used up its 128 bits inside the tree and returned Ok(None).
C21_Witness ==
    /\ WalkBits = 128
    /\ Len(last.res.reads) = 128
    /\ \A k \in 1..128 : last.res.sels[k] < metadata.node_count
    /\ last.res.kind = "ok"
    /\ ~last.res.some

\* ---------------------------------------------------------------------
\* Pointer cycles

\* The chain of pointers that starts at p comes back to a pointer it went
\* through.
RECURSIVE PtrLoop(_, _)
PtrLoop(p, seen) ==
    IF ~PtrAt(p) THEN FALSE
    ELSE IF p \in seen THEN TRUE
    ELSE PtrLoop(ClaimedTarget(p), seen \cup {p})

\* The offsets of the file outside its run of zero bytes.
WrittenOffsets ==
    (0..(Len(file.head) - 1))
    \cup ((Len(file.head) + file.gap)..(SrcLen(file) - 1))

\* Every pointer that the file could hold leads forward (a payload of 2^30
\* or more leads past the end of any file here), so no cycle of pointers
\* exists.
PointersForward ==
    \A p \in WrittenOffsets :
        PtrAt(p) => \/ PtrWidth(p) = 3 /\ ByteAt(file, p + 1) >= 64
                    \/ ClaimedTarget(p) > p

\* C22: nothing guards the decoder against a cycle of pointers: a value that
\* is a pointer to itself, or the first of a cycle of pointers, is decoded
\* without end and the query returns neither a value nor an error; where no
\* pointer can lead back, the decoding ends.
C22_PointerCycleDiverges ==
    /\ (last.res.dataPos >= 0 /\ PtrLoop(last.res.dataPos, {}))
       => /\ last.res.kind = "diverge"
          /\ ~last.res.some
          /\ last.res.val = NoVal
          /\ phase = "aborted"
    /\ (last.op # "none" /\ PointersForward) => last.res.kind # "diverge"
    /\ openRes.kind # "diverge"

\* The query of a pointer whose target is the pointer itself.
C22_Witness ==
    /\ last.res.dataPos >= 0
    /\ PtrAt(last.res.dataPos)
    /\ ClaimedTarget(last.res.dataPos) = last.res.dataPos
    /\ last.res.kind = "diverge"

\* ---------------------------------------------------------------------
\* The layout of a node

\* Byte j (0-based) of the node read at step k of the walk.
NodeByte(k, j) == ByteAt(file, last.res.reads[k] + j)

\* The big-endian integer of the three bytes j, j+1, j+2 of that node.
Three(k, j) == NodeByte(k, j) * 65536 + NodeByte(k, j + 1) * 256 + NodeByte(k, j + 2)

\* The left and the right record of that node, as claimed for the record
\* size.
ClaimedLeft(k) ==
    CASE metadata.record_size = 24 -> Three(k, 0)
      [] metadata.record_size = 28 -> (NodeByte(k, 3) \div 16) * 16777216 + Three(k, 0)
      [] OTHER -> NodeByte(k, 0) * 16777216 + Three(k, 1)

ClaimedRight(k) ==
    CASE metadata.record_size = 24 -> Three(k, 3)
      [] metadata.record_size = 28 -> (NodeByte(k, 3) % 16) * 16777216 + Three(k, 4)
      [] OTHER -> NodeByte(k, 4) * 16777216 + Three(k, 5)

\* C23: for record_size 28 the records of the 7 bytes b0..b6 are
\* left = (high nibble of b3) << 24 | b0 b1 b2 and
\* right = (low nibble of b3) << 24 | b4 b5 b6, both below 2^28; for 24 and 32
\* they are the two big-endian integers of 3, of 4 bytes; bit 0 selects the
\* left record and bit 1 the right one.
C23_NodeLayout ==
    \A k \in 1..Len(last.res.sels) :
        /\ last.res.sels[k] = IF StepBit(k) = 0 THEN ClaimedLeft(k) ELSE ClaimedRight(k)
        /\ NodeAt(last.res.reads[k]) = <<ClaimedLeft(k), ClaimedRight(k)>>
        /\ metadata.record_size = 28 => last.res.sels[k] < 268435456

\* Bit 1 on the 7 bytes A1 23 45 | A5 | AB CD EF selected 0x5ABCDEF.
C23_Witness ==
    /\ metadata.record_size = 28
    /\ Len(last.res.sels) = 1
    /\ StepBit(1) = 1
    /\ NodeByte(1, 3) = 165
    /\ last.res.sels[1] = 95145455

\* ---------------------------------------------------------------------
\* The escaped tag

\* The value at p has type bits 0: the byte after the control byte makes the
\* tag.
EscapedAt(p) ==
    /\ p >= 0
    /\ p + 1 < SrcLen(file)
    /\ ByteAt(file, p) \div 32 = 0

\* C24: with type bits 0 the tag is 7 + nextByte for every nextByte in
\* 0..255, without wrap-around, and every tag outside 1..15, that is every
\* nextByte of 9 or more, 249..255 included, fails with InvalidData and is
\* never taken for a valid tag.
C24_EscapedTagNoWrap ==
    (EscapedAt(last.res.dataPos) /\ ByteAt(file, last.res.dataPos + 1) >= 9)
    => (last.res.kind = "err" /\ last.res.err = "InvalidData")

\* ---------------------------------------------------------------------
\* Integers

\* The control information of the value the last query decoded.
LastTag == IF LastCtl.kind = "ok" THEN LastCtl.val.v.typ ELSE 0 - 1

LastSize == IF LastCtl.kind = "ok" THEN LastCtl.val.v.size ELSE 0 - 1

\* The payload of that value: the LastSize bytes after its control bytes.
LastPayload == Slice(file, LastCtl.pos, LastSize)

PayloadPresent == LastCtl.pos + LastSize <= SrcLen(file)

\* The number of bytes of the type of an unsigned tag, and its variant.
UintWidth(t) == CASE t = 5 -> 2 [] t = 6 -> 4 [] t = 9 -> 8 [] OTHER -> 16

UintName(t) == CASE t = 5 -> "U16" [] t = 6 -> "U32" [] t = 9 -> "U64" [] OTHER -> "U128"

\* C25: for the tags 5, 6, 9 and 10, size 0 decodes to 0 and consumes no
\* payload, size n >= 1 decodes to the big-endian unsigned integer of the
\* next n bytes; an integer that does not fit the type, and a size beyond the
\* bytes of the type, is an error returned to the caller, never a truncated
\* value and never an abort.
C25_UnsignedDecoding ==
    (last.res.dataPos >= 0 /\ LastTag \in {5, 6, 9, 10})
    => /\ LastSize = 0
          => Outcome(last.res) = Outcome(Ok(V(UintName(LastTag), 0), 0))
       /\ (LastSize >= 1 /\ PayloadPresent /\ FitsIn(LastPayload, UintWidth(LastTag)))
          => \/ Outcome(last.res) = Outcome(Ok(V(UintName(LastTag), BE(LastPayload)), 0))
             \/ (LastSize > UintWidth(LastTag) /\ last.res.kind = "err")
       /\ (LastSize >= 1 /\ PayloadPresent /\ ~FitsIn(LastPayload, UintWidth(LastTag)))
          => last.res.kind = "err"
       /\ last.res.kind # "panic"

\* The two's complement value of four big-endian bytes.
TwosComplement(bs) ==
    IF bs[1] >= 128
    THEN (bs[1] - 256) * 16777216 + bs[2] * 65536 + bs[3] * 256 + bs[4]
    ELSE bs[1] * 16777216 + bs[2] * 65536 + bs[3] * 256 + bs[4]

\* C26: for tag 8, size 4 decodes the next 4 bytes as a big-endian two's
\* complement integer; every size in 0..3, 0 included, decodes to the
\* non-negative big-endian integer of the next size bytes (0 for size 0);
\* every size above 4 fails with InvalidData.
C26_SignedDecoding ==
    (last.res.dataPos >= 0 /\ LastTag = 8)
    => /\ (LastSize = 4 /\ PayloadPresent)
          => Outcome(last.res) = Outcome(Ok(V("S32", TwosComplement(LastPayload)), 0))
       /\ (LastSize \in 0..3 /\ PayloadPresent)
          => Outcome(last.res) = Outcome(Ok(V("S32", BE(LastPayload)), 0))
       /\ LastSize > 4
          => (last.res.kind = "err" /\ last.res.err = "InvalidData")

\* ---------------------------------------------------------------------
\* The offsets of the nodes read

\* C27: on a handle with node_count >= 1 every offset at which a walk reads
\* a node is a multiple of bytes_per_node and below node_count *
\* bytes_per_node: the walk starts at 0 and moves to selected *
\* bytes_per_node only when selected < node_count.
C27_NodeOffsetsInTree ==
    (last.op # "none" /\ metadata.node_count >= 1)
    => /\ \A k \in 1..Len(last.res.reads) :
             /\ last.res.reads[k] % bytes_per_node(metadata.record_size) = 0
             /\ last.res.reads[k]
                < metadata.node_count * bytes_per_node(metadata.record_size)
       /\ \A k \in 2..Len(last.res.reads) :
             /\ last.res.sels[k - 1] < metadata.node_count
             /\ last.res.reads[k]
                = last.res.sels[k - 1] * bytes_per_node(metadata.record_size)

\* A walk that went from node 0 to node 1 of a tree of 7-byte nodes.
C27_Witness ==
    /\ metadata.record_size = 28
    /\ metadata.node_count = 2
    /\ Len(last.res.reads) = 2
    /\ last.res.reads[2] = 7

\* ---------------------------------------------------------------------
\* The events of a download

\* The worker came to the end of its closure without a panic.
WorkerPastDone == dl.wpc \in {"drop_writer", "drop_tx", "exit"}

\* The events sent are Progress events, then at most one Done, the last.
ProgressThenDone(events) ==
    \A i \in 1..Len(events) :
        IF events[i].t = "Done" THEN i = Len(events) ELSE events[i] = Progress(i)

\* The consumer took a Done event.
DoneTaken == dl.recvd # <<>> /\ dl.recvd[Len(dl.recvd)].t = "Done"

\* C28: a run of the worker that does not fail sends Progress events, then
\* exactly one Done as its last message, and then the channel disconnects;
\* the loop of the command line tool takes the events in that order and ends
\* only once the worker dropped its sender; the modal of the GUI runs the
\* completion callback at most once, on the first event that maps to no
\* progress, and not at all when the channel disconnects first.
C28_ProgressThenDone ==
    /\ ProgressThenDone(dl.sent)
    /\ WorkerPastDone =>
          /\ Len(dl.sent) = dl.total + 1
          /\ dl.sent[Len(dl.sent)] = Done
    /\ dl.wpc = "exit" => dl.senders = 0
    /\ dl.recvd \o dl.chan = dl.sent
    /\ (dl.consumer = "cli" /\ dl.cpc \in {"ended", "opened"}) =>
          /\ dl.endedWithSenders = 0
          /\ dl.senders = 0
          /\ dl.recvd = dl.sent
          /\ dl.wpc \in {"exit", "panicked"}
    /\ dl.consumer = "gui" =>
          /\ dl.callbacks <= 1
          /\ dl.callbacks = 1 <=> DoneTaken
          /\ dl.callbacks = 1 =>
                /\ dl.callbackOn = <<Done>>
                /\ dl.cpc = "ended"
                /\ \A i \in 1..(Len(dl.recvd) - 1) : download_to_progress(dl.recvd[i])
          /\ (dl.cpc = "ended" /\ ~DoneTaken) =>
                /\ dl.callbacks = 0
                /\ dl.endedWithSenders = 0
                /\ ~dl.pathSet
          /\ (dl.cpc = "ended" /\ dl.wpc = "exit") => dl.callbacks = 1

\* The command line tool took two Progress events or more and the Done event
\* of a worker that did not fail, and its loop ended.
C28_Witness ==
    /\ dl.consumer = "cli"
    /\ dl.cpc = "ended"
    /\ dl.wpc = "exit"
    /\ Len(dl.recvd) >= 3
    /\ DoneTaken

\* C29: when a consumer receives Done(path), every byte downloaded has been
\* written through to the file at path, the buffer of the worker's writer
\* having been written out, so that a handle opened on the path in reaction
\* to Done sees the whole database.
C29_FlushedBeforeDone ==
    DoneTaken => dl.diskAtDone = dl.total

\* ---------------------------------------------------------------------
\* The result of a domain query in the GUI

\* C30: when the resolver thread sent Err(e) on the result channel, the
\* completion callback sets the output text to the DNS resolution error;
\* when it sent Ok(ip), the callback runs exactly one database query, for
\* ip, and shows its result; either way the result was sent before the
\* Completed event and is on the channel when the callback runs.
C30_DnsResultShown ==
    gq.callbacks = 1 =>
       /\ gq.resultAtCallback = <<gq.outcome>>
       /\ gq.outcome.kind = "err" =>
             /\ gq.text = "dns_error"
             /\ gq.queries = <<>>
       /\ gq.outcome.kind = "ok" =>
             /\ gq.queries = <<gq.outcome.ip>>
             /\ gq.text \in {"resolved_data", "resolved_no_data", "query_error"}

====
